---- MODULE Spec2Model ----
(***************************************************************************)
(* The Last Mask maze core: the maze generator (UMazeGenerator), the       *)
(* breadth-first pathfinder (UMazePathfinder) and the discovery state of   *)
(* AMazeManager, as one state machine.                                     *)
(*                                                                         *)
(* Coordinates are 0-based as in the code.  TArray values are sequences,   *)
(* so the element the code calls A[i] is A[i + 1] here.  A two-dimensional *)
(* TArray<TArray<uint8>> is a function [0..SizeY-1 -> [0..SizeX-1 -> byte]]*)
(* indexed Grid[Y][X] as in the code.  World coordinates are kept in half  *)
(* units (twice the value of the code's float), which makes CellSize * 0.5 *)
(* exact for every integer CellSize.                                       *)
(***************************************************************************)
EXTENDS Integers, Sequences, FiniteSets, TLC

VARIABLES
    \* ---- UMazeGenerator: members
    CachedGrid,       \* TArray<TArray<uint8>> CachedGrid
    CachedSize,       \* FIntPoint CachedSize
    PrimFrontier,     \* TArray<TPair<int32,int32>> PrimFrontier
    \* ---- UMazeGenerator::GenerateMaze: the running call
    gpc,              \* where the call stands: "idle", the algorithm, "carved", "done"
    Config,           \* the fields of the FMazeGenerationConfig argument read so far
    DirectionsSize,   \* const FIntPoint DirectionsSize
    Random,           \* the local FRandomStream
    DirectionsGrid,   \* the directions grid (Grid of the algorithm, then DirectionsGrid)
    CarveStack,       \* the nested CarvePassagesFrom calls, innermost last
    Sets,             \* Kruskal's: Parent of every FKruskalSet
    Edges,            \* Kruskal's: the slots of Edges not yet processed
    Entered,          \* backtracker: per room, the CarvePassagesFrom calls made on it
    Added,            \* Prim's: per room, the times it was added to PrimFrontier
    Cells,            \* the TArray<FMazeCell> the call returns
    calls,            \* number of GenerateMaze calls made on this generator
    History,          \* the caller's record: <<Config, Cells>> of each call that returned
    \* ---- UMazePathfinder: members
    CachedCells,      \* TArray<FMazeCell> CachedCells
    MazeSize,         \* FIntPoint MazeSize
    CellSize,         \* float CellSize
    bIsInitialized,   \* bool bIsInitialized
    \* ---- the last pathfinder call and what it returned
    Query,
    \* ---- AMazeManager: members
    GameState,        \* FMazeGameState GameState
    CurrentPath,      \* FMazePathResult CurrentPath
    PathCellSet,      \* TSet<FIntPoint> PathCellSet
    MazeGridData,     \* the UMazeGridData asset assigned in the editor
    ExitActor,        \* location of the Exit actor, NoActor for nullptr
    KeyActor,         \* location of the Key actor, NoActor for nullptr
    Pathfinder,       \* TRUE once BeginPlay has created the UMazePathfinder
    \* ---- the last AMazeManager call
    LastCall,         \* its name
    Prior,            \* GameState when it was entered
    Broadcasts,       \* the delegates it broadcast, in order
    Discovered,       \* the notify calls that took effect since GameState was reset
    Fired,            \* the discovery delegates broadcast since GameState was reset
    Seen,             \* GameState as it was at each of the last call's broadcasts
    \* ---- pathfinder calls running at the same time
    Callers           \* per caller: where its call stands, its arguments and its locals

genVars == <<CachedGrid, CachedSize, PrimFrontier, gpc, Config, DirectionsSize, Random,
             DirectionsGrid, CarveStack, Sets, Edges, Cells, calls, History, Entered, Added>>

pathVars == <<CachedCells, MazeSize, CellSize, bIsInitialized>>

mgrVars == <<GameState, CurrentPath, PathCellSet, MazeGridData, ExitActor, KeyActor,
             Pathfinder, LastCall, Prior, Broadcasts, Discovered, Fired, Seen>>

otherVars == <<mgrVars, Callers>>

vars == <<genVars, pathVars, Query, mgrVars, Callers>>

----------------------------------------------------------------------------
(* Bounds of the model *)

MaxSize == 6        \* SizeX and SizeY range over MinSize..MaxSize
MaxSeed == 1        \* Config.Seed ranges over 0..MaxSeed
MaxCalls == 3       \* GenerateMaze calls on one generator in SpecSeed
MaxDimX == 3        \* SpecPath: InMazeSize.X ranges over 0..MaxDimX
MaxDimY == 2        \* SpecPath: InMazeSize.Y ranges over 0..MaxDimY
MaxCells == 7       \* SpecPath: InCells has 0..MaxCells cells
MaxMismatch == 1    \* SpecPath: InCells is at most this many cells short or long
MaxCellSize == 3    \* SpecCoords: Config.CellSize ranges over 1..MaxCellSize
MaxAssetX == 2      \* SpecManager: the asset's SizeX ranges over 1..MaxAssetX
MaxAssetY == 2      \* SpecManager: the asset's SizeY ranges over 1..MaxAssetY
NumCallers == 2     \* SpecConcurrent: callers of one pathfinder at the same time
MaxSharedX == 2     \* SpecConcurrent: InMazeSize.X ranges over 1..MaxSharedX
MaxSharedY == 2     \* SpecConcurrent: InMazeSize.Y ranges over 1..MaxSharedY

(* Program constants *)

MinSize == 5        \* ClampMin of SizeX and SizeY
DefaultCellSize == 200   \* CellSize of a constructed UMazePathfinder
East == 1
North == 2
South == 4
West == 8
Frontier == 64      \* EPrimCellState::Frontier
In == 128           \* EPrimCellState::In

Algorithms == {"RecursiveBacktracker", "Prims", "Kruskals"}

----------------------------------------------------------------------------
(* uint8 bit flags *)

HasBit(v, b) == (v \div b) % 2 = 1

\* v |= b for a single-bit b
OrBit(v, b) == IF HasBit(v, b) THEN v ELSE (v + b) % 256

(* MazeTypes.h helpers *)

\* The same bit is set on both ends of a passage.
GetOppositeDirectionSame(d) == d

GetOppositeDirection(d) ==
    CASE d = East  -> West
      [] d = West  -> East
      [] d = North -> South
      [] d = South -> North
      [] OTHER     -> 0

GetDirectionDeltaX(d) ==
    CASE d = East -> 1
      [] d = West -> -1
      [] OTHER    -> 0

GetDirectionDeltaY(d) ==
    CASE d = North -> -1
      [] d = South -> 1
      [] OTHER     -> 0

----------------------------------------------------------------------------
(* FRandomStream.  The stream is engine code; the model knows two streams. *)
(* AnyStream leaves the engine's generator unspecified: RandRange(Min,Max) *)
(* may return every value of Min..Max.  A seeded stream is a 16-bit linear *)
(* congruential generator: the same seed gives the same sequence.          *)

AnyStream == -1

MutateSeed(s) == IF s = AnyStream THEN s ELSE (s * 25173 + 13849) % 65536

\* The outcomes of Random.RandRange(Min, Max): the value returned and the
\* stream after the call.
RandRange(s, Min, Max) ==
    IF s = AnyStream
    THEN {[Value |-> v, Random |-> s] : v \in Min..Max}
    ELSE LET s1 == MutateSeed(s)
             Range == (Max - Min) + 1
         IN {[Value |-> Min + (IF Range > 0 THEN (s1 * Range) \div 65536 ELSE 0),
              Random |-> s1]}

\* A stream that continues where the generator's previous call stopped.
StaleRandomStream(Seed) == (Seed + calls) % 65536

\* FRandomStream Random(Config.Seed)
NewRandomStream(Seed) == Seed

Swap(Array, i, j) == [Array EXCEPT ![i + 1] = Array[j + 1], ![j + 1] = Array[i + 1]]

\* ShuffleArray from iteration i on: every [Array, Random] it can end with.
RECURSIVE ShuffleFrom(_, _, _)
ShuffleFrom(Array, i, s) ==
    LET LastIndex == Len(Array) - 1
    IN IF i > LastIndex
       THEN {[Array |-> Array, Random |-> s]}
       ELSE UNION { ShuffleFrom(IF i # r.Value THEN Swap(Array, i, r.Value) ELSE Array,
                                i + 1, r.Random)
                    : r \in RandRange(s, i, LastIndex) }

ShuffleArray(Array, s) == ShuffleFrom(Array, 0, s)

----------------------------------------------------------------------------
(* Grids *)

CreateZeroedGrid(SizeX, SizeY) == [y \in 0..(SizeY - 1) |-> [x \in 0..(SizeX - 1) |-> 0]]

GridSizeY(Grid) == Cardinality(DOMAIN Grid)
GridSizeX(Grid) == IF GridSizeY(Grid) > 0 THEN Cardinality(DOMAIN Grid[0]) ELSE 0

InGrid(Grid, X, Y) == X >= 0 /\ X < GridSizeX(Grid) /\ Y >= 0 /\ Y < GridSizeY(Grid)

\* The rooms of a directions grid of SizeX x SizeY
Rooms(SizeX, SizeY) == {<<x, y>> : x \in 0..(SizeX - 1), y \in 0..(SizeY - 1)}

\* const FIntPoint DirectionsSize((Config.SizeX + 1) / 2, (Config.SizeY + 1) / 2)
DirectionsSizeX(cfg) == (cfg.SizeX + 1) \div 2
DirectionsSizeY(cfg) == (cfg.SizeY + 1) \div 2

\* Only the bit of the room the passage is carved from is set.
CarvePassageOneSided(Grid, X, Y, Dir) == [Grid EXCEPT ![Y][X] = OrBit(@, Dir)]

\* Grid[Y][X] |= Dir; Grid[NextY][NextX] |= opposite(Dir)
CarvePassage(Grid, X, Y, Dir) ==
    LET NextX == X + GetDirectionDeltaX(Dir)
        NextY == Y + GetDirectionDeltaY(Dir)
        g1 == [Grid EXCEPT ![Y][X] = OrBit(@, Dir)]
    IN [g1 EXCEPT ![NextY][NextX] = OrBit(@, GetOppositeDirection(Dir))]

----------------------------------------------------------------------------
(* Recursive backtracker *)

\* The test of line 150 for direction Dir of the call at (X, Y).
\* The neighbour is only tested for being inside the grid.
CanCarveInBounds(Grid, X, Y, Dir) ==
    InGrid(Grid, X + GetDirectionDeltaX(Dir), Y + GetDirectionDeltaY(Dir))

CanCarve(Grid, X, Y, Dir) ==
    LET NextX == X + GetDirectionDeltaX(Dir)
        NextY == Y + GetDirectionDeltaY(Dir)
    IN InGrid(Grid, NextX, NextY) /\ Grid[NextY][NextX] = 0

\* A suspended CarvePassagesFrom call is stored as [X, Y, Directions], where
\* Directions are the entries of its shuffled array that the loop has not
\* reached yet and whose test can still succeed.  An entry whose neighbour is
\* out of bounds or non-zero is dropped when the frame is stored: the loop
\* skips it whenever it reaches it, because a non-zero byte never returns to 0.
PendingDirections(Grid, X, Y, Directions) ==
    SelectSeq(Directions, LAMBDA d : CanCarve(Grid, X, Y, d))

PruneFrames(Grid, Stack) ==
    [k \in 1..Len(Stack) |->
        [Stack[k] EXCEPT !.Directions = PendingDirections(Grid, Stack[k].X, Stack[k].Y, @)]]

\* Entering CarvePassagesFrom(X, Y): the Directions array and its shuffle.
EnterCarve(X, Y, s) ==
    {[X |-> X, Y |-> Y, Directions |-> sh.Array, Random |-> sh.Random]
        : sh \in ShuffleArray(<<East, West, North, South>>, s)}

PopFrame(Stack) == SubSeq(Stack, 1, Len(Stack) - 1)

\* GenerateBacktracker: CreateZeroedGrid, then CarvePassagesFrom(0, 0).
GenerateBacktracker(cfg, stream) ==
    /\ cfg.Algorithm = "RecursiveBacktracker"
    /\ LET Grid == CreateZeroedGrid(DirectionsSizeX(cfg), DirectionsSizeY(cfg))
       IN \E f \in EnterCarve(0, 0, stream) :
            /\ DirectionsGrid' = Grid
            /\ CarveStack' = PruneFrames(Grid, <<[X |-> f.X, Y |-> f.Y, Directions |-> f.Directions]>>)
            /\ Random' = f.Random
    /\ gpc' = "RecursiveBacktracker"
    /\ Entered' = [r \in Rooms(DirectionsSizeX(cfg), DirectionsSizeY(cfg)) |->
                       IF r = <<0, 0>> THEN 1 ELSE 0]
    /\ UNCHANGED <<PrimFrontier, Sets, Edges, Added>>

\* One iteration of the loop of the innermost CarvePassagesFrom call whose test
\* succeeds: carve, then enter the recursive call (which shuffles its own array).
CarvePassagesFrom ==
    /\ gpc = "RecursiveBacktracker"
    /\ CarveStack # << >>
    /\ LET top == CarveStack[Len(CarveStack)]
       IN /\ top.Directions # << >>
          /\ LET Dir == Head(top.Directions)
                 NextX == top.X + GetDirectionDeltaX(Dir)
                 NextY == top.Y + GetDirectionDeltaY(Dir)
                 Grid == CarvePassage(DirectionsGrid, top.X, top.Y, Dir)
                 caller == [CarveStack EXCEPT ![Len(CarveStack)].Directions = Tail(@)]
             IN /\ CanCarve(DirectionsGrid, top.X, top.Y, Dir)
                /\ DirectionsGrid' = Grid
                /\ Entered' = [Entered EXCEPT ![<<NextX, NextY>>] = @ + 1]
                /\ \E f \in EnterCarve(NextX, NextY, Random) :
                     /\ CarveStack' = PruneFrames(Grid,
                            Append(caller, [X |-> f.X, Y |-> f.Y, Directions |-> f.Directions]))
                     /\ Random' = f.Random
    /\ UNCHANGED <<CachedGrid, CachedSize, PrimFrontier, gpc, Config, DirectionsSize, Sets, Edges,
                   Cells, calls, History, Added>>
    /\ UNCHANGED <<pathVars, Query, otherVars>>

\* The loop of the innermost call is over: it returns to its caller; the
\* outermost call returns to GenerateBacktracker, which returns the grid.
CarveReturn ==
    /\ gpc = "RecursiveBacktracker"
    /\ CarveStack # << >>
    /\ CarveStack[Len(CarveStack)].Directions = << >>
    /\ CarveStack' = PopFrame(CarveStack)
    /\ gpc' = IF Len(CarveStack) = 1 THEN "carved" ELSE gpc
    /\ UNCHANGED <<CachedGrid, CachedSize, PrimFrontier, Config, DirectionsSize, Random, DirectionsGrid,
                   Sets, Edges, Cells, calls, History, Entered, Added>>
    /\ UNCHANGED <<pathVars, Query, otherVars>>

----------------------------------------------------------------------------
(* Prim's algorithm *)

\* The room is added to the list without the Frontier tag.
PrimAddToFrontierUntagged(gf, X, Y) ==
    IF InGrid(gf.Grid, X, Y) /\ gf.Grid[Y][X] = 0
    THEN [gf EXCEPT !.Frontier = Append(@, <<X, Y>>), !.Added[<<X, Y>>] = @ + 1]
    ELSE gf

\* PrimAddToFrontier on [Grid, Frontier, Added]
PrimAddToFrontier(gf, X, Y) ==
    IF InGrid(gf.Grid, X, Y) /\ gf.Grid[Y][X] = 0
    THEN [Grid |-> [gf.Grid EXCEPT ![Y][X] = OrBit(@, Frontier)],
          Frontier |-> Append(gf.Frontier, <<X, Y>>),
          Added |-> [gf.Added EXCEPT ![<<X, Y>>] = @ + 1]]
    ELSE gf

\* PrimExpandFrontierFrom on [Grid, Frontier, Added]
PrimExpandFrontierFrom(gf, X, Y) ==
    LET g0 == [gf EXCEPT !.Grid = [gf.Grid EXCEPT ![Y][X] = OrBit(@, In)]]
        g1 == PrimAddToFrontier(g0, X - 1, Y)
        g2 == PrimAddToFrontier(g1, X + 1, Y)
        g3 == PrimAddToFrontier(g2, X, Y - 1)
    IN PrimAddToFrontier(g3, X, Y + 1)

PrimGetInNeighbors(Grid, X, Y) ==
    (IF X > 0 /\ HasBit(Grid[Y][X - 1], In) THEN << <<X - 1, Y>> >> ELSE << >>)
    \o (IF X < GridSizeX(Grid) - 1 /\ HasBit(Grid[Y][X + 1], In) THEN << <<X + 1, Y>> >> ELSE << >>)
    \o (IF Y > 0 /\ HasBit(Grid[Y - 1][X], In) THEN << <<X, Y - 1>> >> ELSE << >>)
    \o (IF Y < GridSizeY(Grid) - 1 /\ HasBit(Grid[Y + 1][X], In) THEN << <<X, Y + 1>> >> ELSE << >>)

\* TPair: Key is X, Value is Y
GetDirectionBetween(From, To) ==
    CASE To[1] > From[1] -> East
      [] To[1] < From[1] -> West
      [] To[2] > From[2] -> South
      [] To[2] < From[2] -> North
      [] OTHER -> 0

RemoveAt(Array, Index) == SubSeq(Array, 1, Index) \o SubSeq(Array, Index + 2, Len(Array))

\* GeneratePrims up to the loop: the grid, the emptied frontier, the start room.
GeneratePrims(cfg, stream) ==
    /\ cfg.Algorithm = "Prims"
    /\ LET SizeX == DirectionsSizeX(cfg)
           SizeY == DirectionsSizeY(cfg)
           Grid == CreateZeroedGrid(SizeX, SizeY)
       IN \E rx \in RandRange(stream, 0, SizeX - 1) :
          \E ry \in RandRange(rx.Random, 0, SizeY - 1) :
            LET gf == PrimExpandFrontierFrom(
                          [Grid |-> Grid, Frontier |-> << >>,
                           Added |-> [r \in Rooms(SizeX, SizeY) |-> 0]],
                          rx.Value, ry.Value)
            IN /\ DirectionsGrid' = gf.Grid
               /\ PrimFrontier' = gf.Frontier
               /\ Added' = gf.Added
               /\ Random' = ry.Random
    /\ gpc' = "Prims"
    /\ UNCHANGED <<CarveStack, Sets, Edges, Entered>>

\* One iteration of the while loop of GeneratePrims.
PrimsStep ==
    /\ gpc = "Prims"
    /\ Len(PrimFrontier) > 0
    /\ \E ri \in RandRange(Random, 0, Len(PrimFrontier) - 1) :
       \E Current \in {PrimFrontier[ri.Value + 1]} :
       \E Rest \in {RemoveAt(PrimFrontier, ri.Value)} :
       \E InNeighbors \in {PrimGetInNeighbors(DirectionsGrid, Current[1], Current[2])} :
          IF Len(InNeighbors) > 0
          THEN \E rn \in RandRange(ri.Random, 0, Len(InNeighbors) - 1) :
               \E Neighbor \in {InNeighbors[rn.Value + 1]} :
               \E Dir \in {GetDirectionBetween(Current, Neighbor)} :
               \E Grid \in {CarvePassage(DirectionsGrid, Current[1], Current[2], Dir)} :
               \E gf \in {PrimExpandFrontierFrom(
                              [Grid |-> Grid, Frontier |-> Rest, Added |-> Added],
                              Current[1], Current[2])} :
                  /\ DirectionsGrid' = gf.Grid
                  /\ PrimFrontier' = gf.Frontier
                  /\ Added' = gf.Added
                  /\ Random' = rn.Random
          ELSE \E gf \in {PrimExpandFrontierFrom(
                              [Grid |-> DirectionsGrid, Frontier |-> Rest, Added |-> Added],
                              Current[1], Current[2])} :
                  /\ DirectionsGrid' = gf.Grid
                  /\ PrimFrontier' = gf.Frontier
                  /\ Added' = gf.Added
                  /\ Random' = ri.Random
    /\ UNCHANGED <<CachedGrid, CachedSize, gpc, Config, DirectionsSize, CarveStack, Sets, Edges,
                   Cells, calls, History, Entered>>
    /\ UNCHANGED <<pathVars, Query, otherVars>>

\* The frontier is empty: GeneratePrims returns the grid.
PrimsReturn ==
    /\ gpc = "Prims"
    /\ Len(PrimFrontier) = 0
    /\ gpc' = "carved"
    /\ UNCHANGED <<CachedGrid, CachedSize, PrimFrontier, Config, DirectionsSize, Random, DirectionsGrid,
                   CarveStack, Sets, Edges, Cells, calls, History, Entered, Added>>
    /\ UNCHANGED <<pathVars, Query, otherVars>>

----------------------------------------------------------------------------
(* Kruskal's algorithm *)

\* The FKruskalSet of room (X, Y) is named by the number SetOf(X, Y, SizeX) in
\* 1..SizeX*SizeY; Sets[n] is the Parent of set n, NullSet for nullptr.
NullSet == 0

SetOf(X, Y, SizeX) == Y * SizeX + X + 1

RECURSIVE GetRoot(_, _)
GetRoot(Parent, Set) == IF Parent[Set] # NullSet THEN GetRoot(Parent, Parent[Set]) ELSE Set

\* Two sets count as connected only when one is the Parent of the other.
IsConnectedToLinked(Parent, This, Other) == Parent[This] = Other \/ Parent[Other] = This

IsConnectedTo(Parent, This, Other) == GetRoot(Parent, This) = GetRoot(Parent, Other)

\* Other->Parent = this: the set itself is attached, not its root.
ConnectToDirect(Parent, This, Other) == [Parent EXCEPT ![Other] = This]

\* this->Parent = Other->GetRoot(): the set itself is attached, under the
\* other root.
ConnectToUnrooted(Parent, This, Other) == [Parent EXCEPT ![This] = GetRoot(Parent, Other)]

\* Other->GetRoot()->Parent = this
ConnectTo(Parent, This, Other) == [Parent EXCEPT ![GetRoot(Parent, Other)] = This]

\* The nested loops that fill Edges, from room (X, Y) on.
RECURSIVE EdgesFrom(_, _, _, _)
EdgesFrom(X, Y, SizeX, SizeY) ==
    IF Y >= SizeY THEN << >>
    ELSE IF X >= SizeX THEN EdgesFrom(0, Y + 1, SizeX, SizeY)
    ELSE (IF X > 0 THEN <<[X |-> X, Y |-> Y, Direction |-> West]>> ELSE << >>)
         \o (IF Y > 0 THEN <<[X |-> X, Y |-> Y, Direction |-> North]>> ELSE << >>)
         \o EdgesFrom(X + 1, Y, SizeX, SizeY)

AllEdges(SizeX, SizeY) == EdgesFrom(0, 0, SizeX, SizeY)

\* Edges.Num() after the loops: one West edge per room with X > 0 and one
\* North edge per room with Y > 0.
NumEdges(SizeX, SizeY) == (SizeX - 1) * SizeY + SizeX * (SizeY - 1)

\* GenerateKruskals up to the shuffle: the grid, one set per room, the edges.
GenerateKruskals(cfg, stream) ==
    /\ cfg.Algorithm = "Kruskals"
    /\ LET SizeX == DirectionsSizeX(cfg)
           SizeY == DirectionsSizeY(cfg)
       IN /\ DirectionsGrid' = CreateZeroedGrid(SizeX, SizeY)
          /\ Sets' = [n \in 1..(SizeX * SizeY) |-> NullSet]
          /\ Edges' = AllEdges(SizeX, SizeY)
    /\ Random' = stream
    /\ gpc' = "Kruskals"
    /\ UNCHANGED <<PrimFrontier, CarveStack, Entered, Added>>

\* Iteration i of ShuffleArray together with iteration i of the loop over the
\* shuffled edges.  Iteration i of the shuffle swaps slot i with a slot of
\* i..LastIndex and no later iteration touches slot i; the loop over the edges
\* reads slot i only and draws nothing from Random.  So the edge the code
\* processes i-th, and the stream it is drawn from, are the ones of this step.
\* Edges holds slots i..LastIndex.
\*
\* Unprocessed is what is left of Array after slot i: Tail(Array).  Under
\* AnyStream every slot that is left can be drawn at every later iteration
\* whatever its place, so there the slots are kept in their order of
\* enumeration (Edges without the drawn slot) instead of in swapped order.
Unprocessed(Edges0, Array, j, s) ==
    IF s = AnyStream THEN RemoveAt(Edges0, j) ELSE Tail(Array)

KruskalsStep ==
    /\ gpc = "Kruskals"
    /\ Len(Edges) > 0
    /\ LET Num == NumEdges(DirectionsSize[1], DirectionsSize[2])
           i == Num - Len(Edges)
           LastIndex == Num - 1
       IN \E r \in RandRange(Random, i, LastIndex) :
            LET Array == IF i # r.Value THEN Swap(Edges, 0, r.Value - i) ELSE Edges
                Edge == Array[1]
                NextX == Edge.X + GetDirectionDeltaX(Edge.Direction)
                NextY == Edge.Y + GetDirectionDeltaY(Edge.Direction)
                CurrentSet == SetOf(Edge.X, Edge.Y, DirectionsSize[1])
                NextSet == SetOf(NextX, NextY, DirectionsSize[1])
            IN /\ Edges' = Unprocessed(Edges, Array, r.Value - i, Random)
               /\ Random' = r.Random
               /\ IF ~IsConnectedTo(Sets, CurrentSet, NextSet)
                  THEN /\ Sets' = ConnectTo(Sets, CurrentSet, NextSet)
                       /\ DirectionsGrid' = CarvePassage(DirectionsGrid, Edge.X, Edge.Y,
                                                         Edge.Direction)
                  ELSE UNCHANGED <<Sets, DirectionsGrid>>
    /\ UNCHANGED <<CachedGrid, CachedSize, PrimFrontier, gpc, Config, DirectionsSize, CarveStack,
                   Cells, calls, History, Entered, Added>>
    /\ UNCHANGED <<pathVars, Query, otherVars>>

\* Every edge is processed: GenerateKruskals returns the grid; Sets and Edges
\* are destroyed with the call.
KruskalsReturn ==
    /\ gpc = "Kruskals"
    /\ Len(Edges) = 0
    /\ gpc' = "carved"
    /\ Sets' = << >>
    /\ UNCHANGED <<CachedGrid, CachedSize, PrimFrontier, Config, DirectionsSize, Random, DirectionsGrid,
                   CarveStack, Edges, Cells, calls, History, Entered, Added>>
    /\ UNCHANGED <<pathVars, Query, otherVars>>

----------------------------------------------------------------------------
(* GenerateMaze *)

\* A conversion that opens the room and its East and West passages only.
RoomFloorNoVertical(DirGrid, X, Y, FinalSizeX, FinalSizeY) ==
    LET FinalX == X * 2
        FinalY == Y * 2
        Directions == DirGrid[Y][X]
    IN IF FinalX >= FinalSizeX \/ FinalY >= FinalSizeY
       THEN {}
       ELSE {<<FinalX, FinalY>>}
            \cup (IF HasBit(Directions, East) /\ FinalX + 1 < FinalSizeX
                  THEN {<<FinalX + 1, FinalY>>} ELSE {})
            \cup (IF HasBit(Directions, West) /\ FinalX - 1 >= 0
                  THEN {<<FinalX - 1, FinalY>>} ELSE {})

\* A conversion that opens the four cells around every room.
RoomFloorOpenAll(DirGrid, X, Y, FinalSizeX, FinalSizeY) ==
    LET FinalX == X * 2
        FinalY == Y * 2
    IN IF FinalX >= FinalSizeX \/ FinalY >= FinalSizeY
       THEN {}
       ELSE {c \in {<<FinalX, FinalY>>, <<FinalX + 1, FinalY>>, <<FinalX, FinalY - 1>>,
                    <<FinalX, FinalY + 1>>, <<FinalX - 1, FinalY>>} :
                c[1] >= 0 /\ c[1] < FinalSizeX /\ c[2] >= 0 /\ c[2] < FinalSizeY}

\* The final cells the loop body of DirectionsToFloorWallGrid sets to 1 for
\* the room (X, Y) of the directions grid.
RoomFloor(DirGrid, X, Y, FinalSizeX, FinalSizeY) ==
    LET FinalX == X * 2
        FinalY == Y * 2
        Directions == DirGrid[Y][X]
    IN IF FinalX >= FinalSizeX \/ FinalY >= FinalSizeY
       THEN {}
       ELSE {<<FinalX, FinalY>>}
            \cup (IF HasBit(Directions, East) /\ FinalX + 1 < FinalSizeX
                  THEN {<<FinalX + 1, FinalY>>} ELSE {})
            \cup (IF HasBit(Directions, North) /\ FinalY - 1 >= 0
                  THEN {<<FinalX, FinalY - 1>>} ELSE {})
            \cup (IF HasBit(Directions, South) /\ FinalY + 1 < FinalSizeY
                  THEN {<<FinalX, FinalY + 1>>} ELSE {})
            \cup (IF HasBit(Directions, West) /\ FinalX - 1 >= 0
                  THEN {<<FinalX - 1, FinalY>>} ELSE {})

\* Starts with all walls (0); every room sets its cells to 1.  The writes only
\* ever store 1, so the grid is 1 exactly on the union of the rooms' writes.
DirectionsToFloorWallGrid(DirGrid, FinalSizeX, FinalSizeY) ==
    LET Floor == UNION { RoomFloor(DirGrid, r[1], r[2], FinalSizeX, FinalSizeY)
                         : r \in Rooms(GridSizeX(DirGrid), GridSizeY(DirGrid)) }
        Zeroed == CreateZeroedGrid(FinalSizeX, FinalSizeY)
    IN [y \in DOMAIN Zeroed |-> [x \in DOMAIN Zeroed[y] |->
            IF <<x, y>> \in Floor THEN 1 ELSE Zeroed[y][x]]]

\* World position of the centre of cell (X, Y), in half units.
CellWorldPosition(X, Y, Size) ==
    <<2 * X * Size + Size, 2 * Y * Size + Size, 0>>

\* The cells are built column by column.
CellsOfColumnMajor(Grid, cfg) ==
    [k \in 1..(cfg.SizeX * cfg.SizeY) |->
        LET X == (k - 1) \div cfg.SizeY
            Y == (k - 1) % cfg.SizeY
        IN [GridPosition |-> <<X, Y>>,
            WorldPosition |-> CellWorldPosition(X, Y, cfg.CellSize),
            bIsFloor |-> (Grid[Y][X] = 1)]]

\* The FMazeCell array built by the loops of lines 72-88, row by row.
\* bIsOnPath and InstanceIndex are false and INDEX_NONE in every cell the
\* constructor builds and are left out.
CellsOf(Grid, cfg) ==
    [k \in 1..(cfg.SizeX * cfg.SizeY) |->
        LET X == (k - 1) % cfg.SizeX
            Y == (k - 1) \div cfg.SizeX
        IN [GridPosition |-> <<X, Y>>,
            WorldPosition |-> CellWorldPosition(X, Y, cfg.CellSize),
            bIsFloor |-> (Grid[Y][X] = 1)]]

\* What line 39 reads of the argument, and what the call has read of it then.
ReadAtCall(cfg) == [Seed |-> cfg.Seed, Algorithm |-> cfg.Algorithm]

\* GenerateMaze(Config) is called: the stream is created and the selected
\* algorithm starts.  SizeX and SizeY are read twice, at line 39 as
\* (Size + 1) / 2 and at line 64 as they are; nothing before line 64 depends
\* on more than DirectionsSize.  Config records the fields as they are read:
\* Seed and Algorithm here, SizeX, SizeY and CellSize in GenerateMazeReturn,
\* which takes them from the arguments that have this DirectionsSize.
GenerateMaze(cfg, stream) ==
    /\ gpc \in {"idle", "done"}
    /\ Config' = ReadAtCall(cfg)
    /\ DirectionsSize' = <<DirectionsSizeX(cfg), DirectionsSizeY(cfg)>>
    /\ calls' = calls + 1
    /\ Cells' = << >>
    /\ \/ GenerateBacktracker(cfg, stream)
       \/ GeneratePrims(cfg, stream)
       \/ GenerateKruskals(cfg, stream)
    /\ UNCHANGED <<CachedGrid, CachedSize, History>>
    /\ UNCHANGED <<pathVars, Query, otherVars>>

\* No GenerateMaze call is running: nothing is read of an argument.
NoConfig == [Seed |-> 0, Algorithm |-> "none"]

\* The algorithm returned the directions grid: convert it, cache it, build
\* the cell array and return it.  The locals of the call (Random,
\* DirectionsSize, DirectionsGrid) end with it.
GenerateMazeReturn(cfg) ==
    /\ gpc = "carved"
    /\ ReadAtCall(cfg) = Config
    /\ <<DirectionsSizeX(cfg), DirectionsSizeY(cfg)>> = DirectionsSize
    /\ \E Grid \in {DirectionsToFloorWallGrid(DirectionsGrid, cfg.SizeX, cfg.SizeY)} :
          /\ CachedGrid' = Grid
          /\ CachedSize' = <<cfg.SizeX, cfg.SizeY>>
          /\ Cells' = CellsOf(Grid, cfg)
    /\ Config' = NoConfig
    /\ DirectionsSize' = <<0, 0>>
    /\ Random' = 0
    /\ DirectionsGrid' = << >>
    /\ Entered' = << >>
    /\ Added' = << >>
    /\ gpc' = "done"
    /\ UNCHANGED <<PrimFrontier, CarveStack, Sets, Edges, calls>>
    /\ UNCHANGED <<pathVars, Query, otherVars>>

GeneratorStep ==
    \/ CarvePassagesFrom
    \/ CarveReturn
    \/ PrimsStep
    \/ PrimsReturn
    \/ KruskalsStep
    \/ KruskalsReturn

----------------------------------------------------------------------------
(* UMazePathfinder *)

\* FMazePathResult as default-constructed
DefaultPathResult ==
    [bSuccess |-> FALSE, PathGridCoordinates |-> << >>, PathWorldPositions |-> << >>,
     PathLength |-> 0]

NoCell == <<-1, -1>>

\* Column by column: Index = X * Height + Y
GridToIndexColumnMajor(GridPos) == GridPos[1] * MazeSize[2] + GridPos[2]

GridToIndex(GridPos) == GridPos[2] * MazeSize[1] + GridPos[1]

\* The bounds test of IsValidCell, lines 958-962
InMazeBounds(GridPosition) ==
    ~(GridPosition[1] < 0 \/ GridPosition[1] >= MazeSize[1] \/
      GridPosition[2] < 0 \/ GridPosition[2] >= MazeSize[2])

\* The test without its upper bound
IndexInArrayNoUpper(Index, Num) == Index >= 0

\* The test of line 966
IndexInArray(Index, Num) == Index >= 0 /\ Index < Num

\* The index at which IsValidCell(GridPosition) reads CachedCells, NoRead if
\* it returns without reading.
NoRead == -1

CellIndexRead(GridPosition) ==
    IF ~InMazeBounds(GridPosition) THEN NoRead
    ELSE IF IndexInArray(GridToIndex(GridPosition), Len(CachedCells))
         THEN GridToIndex(GridPosition)
         ELSE NoRead

\* CachedCells[Index].bIsFloor.  IsValidCell reads no index outside the array.
ReadIsFloor(Index) ==
    IF Index + 1 \in DOMAIN CachedCells THEN CachedCells[Index + 1].bIsFloor ELSE FALSE

\* Bounds only: the cell's bIsFloor is not looked at.
IsValidCellBoundsOnly(GridPosition) == CellIndexRead(GridPosition) # NoRead

IsValidCell(GridPosition) ==
    LET Index == CellIndexRead(GridPosition)
    IN IF Index = NoRead THEN FALSE ELSE ReadIsFloor(Index)

\* World coordinates are in half units: 2 * p.X / (2 * CellSize) = p.X / CellSize
\* Rounds to the nearest cell index instead of down.
WorldToGridRounded(WorldPosition) ==
    <<(WorldPosition[1] + CellSize) \div (2 * CellSize),
      (WorldPosition[2] + CellSize) \div (2 * CellSize)>>

WorldToGrid(WorldPosition) ==
    <<WorldPosition[1] \div (2 * CellSize), WorldPosition[2] \div (2 * CellSize)>>

GridToWorld(GridPosition) ==
    <<2 * GridPosition[1] * CellSize + CellSize, 2 * GridPosition[2] * CellSize + CellSize, 0>>

\* A South offset that also steps East
OffsetsDiagonal == << <<1, 0>>, <<-1, 0>>, <<1, 1>>, <<0, -1>> >>

\* An order that is not fixed: South comes first while a call of some caller
\* has returned.
OffsetsTurning ==
    IF \E c \in DOMAIN Callers : Callers[c].pc = "returned"
    THEN << <<0, 1>>, <<0, -1>>, <<1, 0>>, <<-1, 0>> >>
    ELSE << <<1, 0>>, <<-1, 0>>, <<0, 1>>, <<0, -1>> >>

\* East, West, South, North
Offsets == << <<1, 0>>, <<-1, 0>>, <<0, 1>>, <<0, -1>> >>

NeighborPositions(GridPos) ==
    [k \in 1..Len(Offsets) |-> <<GridPos[1] + Offsets[k][1], GridPos[2] + Offsets[k][2]>>]

GetWalkableNeighbors(GridPos) == SelectSeq(NeighborPositions(GridPos), IsValidCell)

SeqRange(q) == {q[k] : k \in 1..Len(q)}

\* A stack instead of a queue: the newest entry is taken.
DequeueLast(Queue) ==
    [Item |-> Queue[Len(Queue)], Rest |-> SubSeq(Queue, 1, Len(Queue) - 1)]

\* Queue.Dequeue(Current)
Dequeue(Queue) == [Item |-> Head(Queue), Rest |-> Tail(Queue)]

\* The BFS loop of FindPath from the state (Queue, Visited, Parents); Tested
\* collects the positions IsValidCell was called on.  The neighbours of one
\* cell are pairwise different, so the loop over them enqueues exactly those
\* that are not in Visited, in their order.
RECURSIVE BFSLoop(_, _, _, _, _)
BFSLoop(Queue, Visited, Parents, Tested, End) ==
    IF Queue = << >>
    THEN [bFoundPath |-> FALSE, Visited |-> Visited, Parents |-> Parents, Tested |-> Tested]
    ELSE LET d == Dequeue(Queue)
             Current == d.Item
         IN IF Current = End
            THEN [bFoundPath |-> TRUE, Visited |-> Visited, Parents |-> Parents,
                  Tested |-> Tested]
            ELSE LET Neighbors == GetWalkableNeighbors(Current)
                     New == SelectSeq(Neighbors, LAMBDA n : n \notin Visited)
                 IN BFSLoop(d.Rest \o New,
                            Visited \cup SeqRange(New),
                            [c \in DOMAIN Parents \cup SeqRange(New) |->
                                IF c \in DOMAIN Parents THEN Parents[c] ELSE Current],
                            Tested \cup SeqRange(NeighborPositions(Current)),
                            End)

\* The reconstruction loop: from Current back along Parents.
RECURSIVE WalkBack(_, _)
WalkBack(Parents, Current) ==
    IF Current = NoCell THEN << >>
    ELSE IF Current \in DOMAIN Parents
         THEN <<Current>> \o WalkBack(Parents, Parents[Current])
         ELSE <<Current>>

Reverse(q) == [k \in 1..Len(q) |-> q[Len(q) + 1 - k]]

\* A failure result that keeps the number of cells the search visited.
FailedPathPartial(Visited, Tested) ==
    [Result |-> [DefaultPathResult EXCEPT !.PathLength = Cardinality(Visited)],
     Visited |-> Visited, Tested |-> Tested]

\* What FindPath returns on a failure path: Result as set up at its entry.
FailedPath(Visited, Tested) ==
    [Result |-> [DefaultPathResult EXCEPT !.bSuccess = FALSE, !.PathLength = 0],
     Visited |-> Visited, Tested |-> Tested]

\* FindPath(Start, End): the result, with the BFS's Visited set and the
\* positions tested with IsValidCell.
FindPath(Start, End) ==
    IF ~bIsInitialized THEN FailedPath({}, {})
    ELSE IF ~IsValidCell(Start) THEN FailedPath({}, {Start})
    ELSE IF ~IsValidCell(End) THEN FailedPath({}, {Start, End})
    ELSE IF Start = End
    THEN [Result |-> [bSuccess |-> TRUE,
                      PathGridCoordinates |-> <<Start>>,
                      PathWorldPositions |-> <<GridToWorld(Start)>>,
                      PathLength |-> 1],
          Visited |-> {}, Tested |-> {Start, End}]
    ELSE LET bfs == BFSLoop(<<Start>>, {Start}, [c \in {Start} |-> NoCell],
                            {Start, End}, End)
         IN IF ~bfs.bFoundPath
            THEN FailedPath(bfs.Visited, bfs.Tested)
            ELSE LET ReversedPath == Reverse(WalkBack(bfs.Parents, End))
                 IN [Result |-> [bSuccess |-> TRUE,
                                 PathGridCoordinates |-> ReversedPath,
                                 PathWorldPositions |->
                                     [k \in 1..Len(ReversedPath) |-> GridToWorld(ReversedPath[k])],
                                 PathLength |-> Len(ReversedPath)],
                     Visited |-> bfs.Visited, Tested |-> bfs.Tested]

Abs(n) == IF n < 0 THEN -n ELSE n
Max(a, b) == IF a > b THEN a ELSE b

\* A scan that skips every offset that is not a corner of the square.
RingPositionsCornersOnly(GridPosition, Radius) ==
    LET Side == 2 * Radius + 1
        All == [k \in 1..(Side * Side) |-> <<((k - 1) \div Side) - Radius, ((k - 1) % Side) - Radius>>]
        Corners == SelectSeq(All, LAMBDA d : ~(Abs(d[1]) # Radius \/ Abs(d[2]) # Radius))
    IN [k \in 1..Len(Corners) |->
            <<GridPosition[1] + Corners[k][1], GridPosition[2] + Corners[k][2]>>]

\* The positions the two inner loops of FindNearestWalkableCell test at
\* Radius, in the order of the loops (DX outer, DY inner, perimeter only).
RingPositions(GridPosition, Radius) ==
    LET Side == 2 * Radius + 1
        All == [k \in 1..(Side * Side) |-> <<((k - 1) \div Side) - Radius, ((k - 1) % Side) - Radius>>]
        Perimeter == SelectSeq(All, LAMBDA d : ~(Abs(d[1]) # Radius /\ Abs(d[2]) # Radius))
    IN [k \in 1..Len(Perimeter) |->
            <<GridPosition[1] + Perimeter[k][1], GridPosition[2] + Perimeter[k][2]>>]

\* The outer loop of FindNearestWalkableCell from Radius on.
RECURSIVE NearestFrom(_, _, _, _)
NearestFrom(GridPosition, Radius, MaxRadius, Tested) ==
    IF Radius > MaxRadius THEN [Found |-> NoCell, Tested |-> Tested]
    ELSE LET Ring == RingPositions(GridPosition, Radius)
             Hits == {k \in 1..Len(Ring) : IsValidCell(Ring[k])}
         IN IF Hits # {}
            THEN LET First == CHOOSE k \in Hits : \A h \in Hits : k <= h
                 IN [Found |-> Ring[First],
                     Tested |-> Tested \cup {Ring[k] : k \in 1..First}]
            ELSE NearestFrom(GridPosition, Radius + 1, MaxRadius, Tested \cup SeqRange(Ring))

FindNearestWalkableCell(GridPosition) ==
    NearestFrom(GridPosition, 0, Max(MazeSize[1], MazeSize[2]), {})

\* The end is snapped to the nearest walkable cell like the start.
FindPathFromWorldSnapEnd(WorldStart, GridEnd) ==
    LET GridStart == WorldToGrid(WorldStart)
        Start == IF IsValidCell(GridStart) THEN GridStart
                 ELSE FindNearestWalkableCell(GridStart).Found
        End == IF IsValidCell(GridEnd) THEN GridEnd
               ELSE FindNearestWalkableCell(GridEnd).Found
        r == FindPath(Start, End)
    IN [Result |-> r.Result, Visited |-> r.Visited, Tested |-> r.Tested, GridStart |-> Start]

\* FindPathFromWorld(WorldStart, GridEnd), with GridStart as used
FindPathFromWorld(WorldStart, GridEnd) ==
    LET GridStart == WorldToGrid(WorldStart)
    IN IF ~IsValidCell(GridStart)
       THEN LET near == FindNearestWalkableCell(GridStart)
            IN IF near.Found = NoCell
               THEN [Result |-> [DefaultPathResult EXCEPT !.bSuccess = FALSE],
                     Visited |-> {}, Tested |-> {GridStart} \cup near.Tested,
                     GridStart |-> near.Found]
               ELSE LET r == FindPath(near.Found, GridEnd)
                    IN [Result |-> r.Result, Visited |-> r.Visited,
                        Tested |-> {GridStart} \cup near.Tested \cup r.Tested,
                        GridStart |-> near.Found]
       ELSE LET r == FindPath(GridStart, GridEnd)
            IN [Result |-> r.Result, Visited |-> r.Visited,
                Tested |-> {GridStart} \cup r.Tested, GridStart |-> GridStart]

\* No pathfinder call is under way.
NoQuery ==
    [Op |-> "None", Start |-> NoCell, End |-> NoCell, Result |-> DefaultPathResult,
     Found |-> NoCell, Valid |-> FALSE, Visited |-> {}, Tested |-> {},
     World |-> <<0, 0, 0>>]

\* Initialize(InCells, InMazeSize, InCellSize)
Initialize(InCells, InMazeSize, InCellSize) ==
    /\ Query.Op = "None"
    /\ CachedCells' = InCells
    /\ MazeSize' = InMazeSize
    /\ CellSize' = InCellSize
    /\ bIsInitialized' = (Len(InCells) = InMazeSize[1] * InMazeSize[2])
    /\ UNCHANGED <<genVars, Query, otherVars>>

CallFindPath(Start, End) ==
    /\ Query.Op = "None"
    /\ \E r \in {FindPath(Start, End)} :
          Query' = [NoQuery EXCEPT !.Op = "FindPath", !.Start = Start, !.End = End,
                                   !.Result = r.Result, !.Visited = r.Visited,
                                   !.Tested = r.Tested]
    /\ UNCHANGED <<genVars, pathVars, otherVars>>

CallFindPathFromWorld(WorldStart, GridEnd) ==
    /\ Query.Op = "None"
    /\ \E r \in {FindPathFromWorld(WorldStart, GridEnd)} :
          Query' = [NoQuery EXCEPT !.Op = "FindPathFromWorld", !.World = WorldStart,
                                   !.Start = r.GridStart,
                                   !.End = GridEnd, !.Result = r.Result,
                                   !.Visited = r.Visited, !.Tested = r.Tested]
    /\ UNCHANGED <<genVars, pathVars, otherVars>>

CallIsValidCell(GridPosition) ==
    /\ Query.Op = "None"
    /\ Query' = [NoQuery EXCEPT !.Op = "IsValidCell", !.Start = GridPosition,
                                !.Valid = IsValidCell(GridPosition),
                                !.Tested = {GridPosition}]
    /\ UNCHANGED <<genVars, pathVars, otherVars>>

CallFindNearestWalkableCell(GridPosition) ==
    /\ Query.Op = "None"
    /\ \E r \in {FindNearestWalkableCell(GridPosition)} :
          Query' = [NoQuery EXCEPT !.Op = "FindNearestWalkableCell", !.Start = GridPosition,
                                   !.Found = r.Found, !.Tested = r.Tested]
    /\ UNCHANGED <<genVars, pathVars, otherVars>>

CallGridToWorld(GridPosition) ==
    /\ Query.Op = "None"
    /\ Query' = [NoQuery EXCEPT !.Op = "GridToWorld", !.Start = GridPosition,
                                !.World = GridToWorld(GridPosition)]
    /\ UNCHANGED <<genVars, pathVars, otherVars>>

\* The caller has the result; the pathfinder can be called again.
TakeResult ==
    /\ Query.Op # "None"
    /\ Query' = NoQuery
    /\ UNCHANGED <<genVars, pathVars, otherVars>>

----------------------------------------------------------------------------
(* UMazePathfinder called by several callers at the same time.  Every call *)
(* has its own arguments and locals (Queue, Visited, Parents, Result); the *)
(* members are shared.  A call advances by one loop iteration per step.    *)

CallerIds == 1..NumCallers

\* No call of this caller is under way.
IdleCall ==
    [pc |-> "idle", Op |-> "None", Start |-> NoCell, End |-> NoCell, World |-> <<0, 0, 0>>,
     Queue |-> << >>, Visited |-> {}, Parents |-> << >>,
     Result |-> DefaultPathResult, Found |-> NoCell, Valid |-> FALSE]

\* The call of caller c returns: its locals are destroyed.
ReturnedCall(c, Res) ==
    [Callers[c] EXCEPT !.pc = "returned", !.Result = Res,
                       !.Queue = << >>, !.Visited = {}, !.Parents = << >>]

\* One Visited set for all calls: what every running call has visited.
VisitedShared(c) == UNION {Callers[d].Visited : d \in CallerIds}

\* TSet<FIntPoint> Visited of the call of caller c, a local of FindPath
VisitedOf(c) == Callers[c].Visited

\* FindPath(Start, End) up to the BFS loop, as the call of caller c.
EnterFindPath(c, Op, World, Start, End) ==
    LET call == [IdleCall EXCEPT !.Op = Op, !.World = World, !.Start = Start, !.End = End]
    IN IF ~bIsInitialized \/ ~IsValidCell(Start) \/ ~IsValidCell(End)
       THEN [call EXCEPT !.pc = "returned", !.Result = FailedPath({}, {}).Result]
       ELSE IF Start = End
       THEN [call EXCEPT !.pc = "returned",
                         !.Result = [bSuccess |-> TRUE,
                                     PathGridCoordinates |-> <<Start>>,
                                     PathWorldPositions |-> <<GridToWorld(Start)>>,
                                     PathLength |-> 1]]
       ELSE [call EXCEPT !.pc = "bfs", !.Queue = <<Start>>, !.Visited = {Start},
                         !.Parents = [p \in {Start} |-> NoCell]]

StartFindPath(c, Start, End) ==
    /\ Callers[c].pc = "idle"
    /\ Callers' = [Callers EXCEPT ![c] = EnterFindPath(c, "FindPath", <<0, 0, 0>>, Start, End)]
    /\ UNCHANGED <<genVars, pathVars, Query, mgrVars>>

StartFindPathFromWorld(c, WorldStart, GridEnd) ==
    /\ Callers[c].pc = "idle"
    /\ LET GridStart == WorldToGrid(WorldStart)
           Resolved == IF ~IsValidCell(GridStart)
                       THEN FindNearestWalkableCell(GridStart).Found
                       ELSE GridStart
       IN Callers' = [Callers EXCEPT ![c] =
              IF Resolved = NoCell
              THEN [IdleCall EXCEPT !.pc = "returned", !.Op = "FindPathFromWorld",
                                    !.World = WorldStart, !.End = GridEnd,
                                    !.Result = [DefaultPathResult EXCEPT !.bSuccess = FALSE]]
              ELSE EnterFindPath(c, "FindPathFromWorld", WorldStart, Resolved, GridEnd)]
    /\ UNCHANGED <<genVars, pathVars, Query, mgrVars>>

\* One iteration of the while loop of FindPath in the call of caller c, or,
\* when the loop ends, the rest of the call.
FindPathStep(c) ==
    /\ Callers[c].pc = "bfs"
    /\ LET call == Callers[c]
       IN IF call.Queue = << >>
          THEN Callers' = [Callers EXCEPT ![c] = ReturnedCall(c, FailedPath({}, {}).Result)]
          ELSE LET d == Dequeue(call.Queue)
                   Current == d.Item
               IN IF Current = call.End
                  THEN LET ReversedPath == Reverse(WalkBack(call.Parents, call.End))
                       IN Callers' = [Callers EXCEPT ![c] = ReturnedCall(c,
                              [bSuccess |-> TRUE,
                               PathGridCoordinates |-> ReversedPath,
                               PathWorldPositions |->
                                   [k \in 1..Len(ReversedPath) |-> GridToWorld(ReversedPath[k])],
                               PathLength |-> Len(ReversedPath)])]
                  ELSE LET Neighbors == GetWalkableNeighbors(Current)
                           New == SelectSeq(Neighbors, LAMBDA n : n \notin VisitedOf(c))
                       IN Callers' = [Callers EXCEPT
                              ![c].Queue = d.Rest \o New,
                              ![c].Visited = VisitedOf(c) \cup SeqRange(New),
                              ![c].Parents =
                                  [p \in DOMAIN call.Parents \cup SeqRange(New) |->
                                      IF p \in DOMAIN call.Parents THEN call.Parents[p]
                                      ELSE Current]]
    /\ UNCHANGED <<genVars, pathVars, Query, mgrVars>>

RunIsValidCell(c, GridPosition) ==
    /\ Callers[c].pc = "idle"
    /\ Callers' = [Callers EXCEPT ![c] =
          [IdleCall EXCEPT !.pc = "returned", !.Op = "IsValidCell", !.Start = GridPosition,
                           !.Valid = IsValidCell(GridPosition)]]
    /\ UNCHANGED <<genVars, pathVars, Query, mgrVars>>

RunFindNearestWalkableCell(c, GridPosition) ==
    /\ Callers[c].pc = "idle"
    /\ Callers' = [Callers EXCEPT ![c] =
          [IdleCall EXCEPT !.pc = "returned", !.Op = "FindNearestWalkableCell",
                           !.Start = GridPosition,
                           !.Found = FindNearestWalkableCell(GridPosition).Found]]
    /\ UNCHANGED <<genVars, pathVars, Query, mgrVars>>

\* The caller has its result.
TakeReturned(c) ==
    /\ Callers[c].pc = "returned"
    /\ Callers' = [Callers EXCEPT ![c] = IdleCall]
    /\ UNCHANGED <<genVars, pathVars, Query, mgrVars>>

----------------------------------------------------------------------------
(* AMazeManager.  The manager stands at the world origin without rotation, *)
(* so a world location is its own local position.  The path mesh component *)
(* and the editor-only bake are not part of the model.                     *)

\* FMazeGameState as default-constructed
DefaultGameState ==
    [bExitDiscovered |-> FALSE, bHasKey |-> FALSE, CurrentTarget |-> "Exit",
     bPathVisible |-> FALSE, bHollowMaskUnlocked |-> FALSE,
     bHollowMaskPermanentlyLocked |-> FALSE]

NoActor == << >>

\* No asset is assigned: MazeGridData is nullptr.
NoAsset == [Assigned |-> FALSE, SizeX |-> 0, SizeY |-> 0, CellSize |-> 0, Cells |-> << >>]

\* UMazeGridData::IsValid
IsValid(Data) ==
    Data.SizeX > 0 /\ Data.SizeY > 0 /\ Len(Data.Cells) = Data.SizeX * Data.SizeY

\* The functions below work on [GameState, Broadcasts, Seen]: the game state,
\* the broadcasts of the running call so far and the game state at each of them.

\* A state that is recomputed from the two discovery flags at every call.
UpdateHollowMaskStateRecomputed(st) ==
    LET gs == st.GameState
    IN [st EXCEPT !.GameState =
           [gs EXCEPT !.bHollowMaskPermanentlyLocked = gs.bHasKey /\ ~gs.bExitDiscovered,
                      !.bHollowMaskUnlocked = gs.bExitDiscovered /\ ~gs.bHasKey]]

\* The Hollow Mask is unlocked without a broadcast.
UpdateHollowMaskStateSilent(st) ==
    LET gs == st.GameState
    IN IF gs.bHollowMaskPermanentlyLocked THEN st
       ELSE IF gs.bHasKey /\ ~gs.bExitDiscovered
       THEN [st EXCEPT !.GameState = [gs EXCEPT !.bHollowMaskPermanentlyLocked = TRUE]]
       ELSE IF gs.bExitDiscovered /\ ~gs.bHasKey /\ ~gs.bHollowMaskUnlocked
       THEN [st EXCEPT !.GameState = [gs EXCEPT !.bHollowMaskUnlocked = TRUE]]
       ELSE st

\* The lock is no latch and the key does not matter: the Hollow Mask is
\* unlocked whenever the exit is discovered.
UpdateHollowMaskStateNoLatch(st) ==
    LET gs == st.GameState
    IN IF gs.bHasKey /\ ~gs.bExitDiscovered
       THEN [st EXCEPT !.GameState = [gs EXCEPT !.bHollowMaskPermanentlyLocked = TRUE]]
       ELSE IF gs.bExitDiscovered /\ ~gs.bHollowMaskUnlocked
       THEN [st EXCEPT !.GameState = [gs EXCEPT !.bHollowMaskUnlocked = TRUE],
                       !.Broadcasts = Append(@, <<"OnHollowMaskUnlocked">>),
                       !.Seen = Append(@, [gs EXCEPT !.bHollowMaskUnlocked = TRUE])]
       ELSE st

UpdateHollowMaskState(st) ==
    LET gs == st.GameState
    IN IF gs.bHollowMaskPermanentlyLocked THEN st
       ELSE IF gs.bHasKey /\ ~gs.bExitDiscovered
       THEN [st EXCEPT !.GameState = [gs EXCEPT !.bHollowMaskPermanentlyLocked = TRUE]]
       ELSE IF gs.bExitDiscovered /\ ~gs.bHasKey /\ ~gs.bHollowMaskUnlocked
       THEN [GameState |-> [gs EXCEPT !.bHollowMaskUnlocked = TRUE],
             Broadcasts |-> Append(st.Broadcasts, <<"OnHollowMaskUnlocked">>),
             Seen |-> Append(st.Seen, [gs EXCEPT !.bHollowMaskUnlocked = TRUE])]
       ELSE st

\* The target is left as it is.
UpdatePathfindingTargetSkipped(st) == st

\* OnTargetChanged is broadcast at every call, changed or not.
UpdatePathfindingTargetAlwaysFires(st) ==
    LET gs == st.GameState
        NewTarget == IF gs.bHasKey THEN "Exit"
                     ELSE IF gs.bExitDiscovered THEN "Key"
                     ELSE "Exit"
    IN [GameState |-> [gs EXCEPT !.CurrentTarget = NewTarget],
        Broadcasts |-> Append(st.Broadcasts, <<"OnTargetChanged", NewTarget>>),
        Seen |-> Append(st.Seen, [gs EXCEPT !.CurrentTarget = NewTarget])]

\* OnTargetChanged is broadcast before everything else of the call.
UpdatePathfindingTargetFiresFirst(st) ==
    LET gs == st.GameState
        OldTarget == gs.CurrentTarget
        NewTarget == IF gs.bHasKey THEN "Exit"
                     ELSE IF gs.bExitDiscovered THEN "Key"
                     ELSE "Exit"
    IN [GameState |-> [gs EXCEPT !.CurrentTarget = NewTarget],
        Broadcasts |-> IF NewTarget # OldTarget
                       THEN << <<"OnTargetChanged", NewTarget>> >> \o st.Broadcasts
                       ELSE st.Broadcasts,
        Seen |-> IF NewTarget # OldTarget
                 THEN <<[gs EXCEPT !.CurrentTarget = NewTarget]>> \o st.Seen
                 ELSE st.Seen]

UpdatePathfindingTarget(st) ==
    LET gs == st.GameState
        OldTarget == gs.CurrentTarget
        NewTarget == IF gs.bHasKey THEN "Exit"
                     ELSE IF gs.bExitDiscovered THEN "Key"
                     ELSE "Exit"
    IN [GameState |-> [gs EXCEPT !.CurrentTarget = NewTarget],
        Broadcasts |-> IF NewTarget # OldTarget
                       THEN Append(st.Broadcasts, <<"OnTargetChanged", NewTarget>>)
                       ELSE st.Broadcasts,
        Seen |-> IF NewTarget # OldTarget
                 THEN Append(st.Seen, [gs EXCEPT !.CurrentTarget = NewTarget])
                 ELSE st.Seen]

\* Available as long as the key is still missing.
IsHollowMaskAvailableUntilKey(gs) ==
    gs.bHollowMaskUnlocked /\ ~gs.bHollowMaskPermanentlyLocked /\ ~gs.bHasKey

IsHollowMaskAvailable(gs) == gs.bHollowMaskUnlocked /\ ~gs.bHollowMaskPermanentlyLocked

\* The key alone opens the exit.
CanExitMazeKeyOnly(gs) == gs.bHasKey

CanExitMaze(gs) == gs.bExitDiscovered /\ gs.bHasKey

\* The early return is never taken.
AlreadyNotifiedNever(Flag) == FALSE

\* The tests of lines 446 and 466 on bExitDiscovered and bHasKey
AlreadyNotified(Flag) == Flag

\* The broadcasts of the delegates of the discovery state among b
DiscoveryBroadcasts(b) ==
    SelectSeq(b, LAMBDA e : e[1] \in {"OnExitDiscovered", "OnKeyCollected",
                                      "OnHollowMaskUnlocked", "OnTargetChanged"})

\* What every AMazeManager call records of itself.
Called(Name) ==
    /\ LastCall' = Name
    /\ Prior' = GameState

NotifyExitDiscovered ==
    /\ Called("NotifyExitDiscovered")
    /\ IF AlreadyNotified(GameState.bExitDiscovered)
       THEN /\ Broadcasts' = << >>
            /\ Seen' = << >>
            /\ UNCHANGED <<GameState, Discovered, Fired>>
       ELSE /\ \E st \in {UpdatePathfindingTarget(UpdateHollowMaskState(
                            [GameState |-> [GameState EXCEPT !.bExitDiscovered = TRUE],
                             Broadcasts |-> << <<"OnExitDiscovered">> >>,
                             Seen |-> <<[GameState EXCEPT !.bExitDiscovered = TRUE]>>]))} :
                 /\ GameState' = st.GameState
                 /\ Broadcasts' = st.Broadcasts
                 /\ Seen' = st.Seen
                 /\ Fired' = Fired \o DiscoveryBroadcasts(st.Broadcasts)
            /\ Discovered' = Append(Discovered, "Exit")
    /\ UNCHANGED <<CurrentPath, PathCellSet, MazeGridData, ExitActor, KeyActor, Pathfinder>>
    /\ UNCHANGED <<genVars, pathVars, Query, Callers>>

NotifyKeyCollected ==
    /\ Called("NotifyKeyCollected")
    /\ IF AlreadyNotified(GameState.bHasKey)
       THEN /\ Broadcasts' = << >>
            /\ Seen' = << >>
            /\ UNCHANGED <<GameState, Discovered, Fired>>
       ELSE /\ \E st \in {UpdatePathfindingTarget(UpdateHollowMaskState(
                            [GameState |-> [GameState EXCEPT !.bHasKey = TRUE],
                             Broadcasts |-> << <<"OnKeyCollected">> >>,
                             Seen |-> <<[GameState EXCEPT !.bHasKey = TRUE]>>]))} :
                 /\ GameState' = st.GameState
                 /\ Broadcasts' = st.Broadcasts
                 /\ Seen' = st.Seen
                 /\ Fired' = Fired \o DiscoveryBroadcasts(st.Broadcasts)
            /\ Discovered' = Append(Discovered, "Key")
    /\ UNCHANGED <<CurrentPath, PathCellSet, MazeGridData, ExitActor, KeyActor, Pathfinder>>
    /\ UNCHANGED <<genVars, pathVars, Query, Callers>>

\* ActorToGridPosition(Actor)
ActorToGridPosition(Actor) ==
    IF Actor = NoActor \/ ~Pathfinder THEN NoCell
    ELSE LET GridPos == WorldToGrid(Actor)
         IN IF ~IsValidCell(GridPos)
            THEN FindNearestWalkableCell(GridPos).Found
            ELSE GridPos

GetCurrentTargetGridPosition ==
    CASE GameState.CurrentTarget = "Exit" -> ActorToGridPosition(ExitActor)
      [] GameState.CurrentTarget = "Key"  -> ActorToGridPosition(KeyActor)
      [] OTHER -> NoCell

\* BeginPlay: creates the pathfinder, LoadMazeData, then UpdatePathfindingTarget
\* when there is an Exit actor.  LoadMazeData returns early without an asset or
\* with an invalid one; otherwise it initializes the pathfinder, resets
\* GameState and broadcasts OnMazeReady.
BeginPlay ==
    /\ ~Pathfinder
    /\ Query.Op = "None"
    /\ Called("BeginPlay")
    /\ Pathfinder' = TRUE
    /\ IF ~MazeGridData.Assigned \/ ~IsValid(MazeGridData)
       THEN /\ \E st \in {IF ExitActor # NoActor
                          THEN UpdatePathfindingTarget([GameState |-> GameState,
                                                        Broadcasts |-> << >>,
                                                        Seen |-> << >>])
                          ELSE [GameState |-> GameState, Broadcasts |-> << >>,
                                Seen |-> << >>]} :
                 /\ GameState' = st.GameState
                 /\ Broadcasts' = st.Broadcasts
                 /\ Seen' = st.Seen
                 /\ Fired' = Fired \o DiscoveryBroadcasts(st.Broadcasts)
            /\ UNCHANGED <<pathVars, Discovered>>
       ELSE /\ CachedCells' = MazeGridData.Cells
            /\ MazeSize' = <<MazeGridData.SizeX, MazeGridData.SizeY>>
            /\ CellSize' = MazeGridData.CellSize
            /\ bIsInitialized' = (Len(MazeGridData.Cells) = MazeGridData.SizeX * MazeGridData.SizeY)
            /\ \E st \in {IF ExitActor # NoActor
                          THEN UpdatePathfindingTarget([GameState |-> DefaultGameState,
                                                        Broadcasts |-> << <<"OnMazeReady">> >>,
                                                        Seen |-> <<DefaultGameState>>])
                          ELSE [GameState |-> DefaultGameState,
                                Broadcasts |-> << <<"OnMazeReady">> >>,
                                Seen |-> <<DefaultGameState>>]} :
                 /\ GameState' = st.GameState
                 /\ Broadcasts' = st.Broadcasts
                 /\ Seen' = st.Seen
                 /\ Fired' = DiscoveryBroadcasts(st.Broadcasts)
            /\ Discovered' = << >>
    /\ UNCHANGED <<CurrentPath, PathCellSet, MazeGridData, ExitActor, KeyActor>>
    /\ UNCHANGED <<genVars, Query, Callers>>

\* ShowPath(PlayerWorldLocation): RecalculatePath, then bPathVisible = true.
\* RecalculatePath returns early when the target has no grid position;
\* otherwise it stores FindPathFromWorld's result and broadcasts OnPathUpdated
\* when the result is a success.
ShowPath(PlayerWorldLocation) ==
    /\ Called("ShowPath")
    /\ IF ~Pathfinder
       THEN /\ Broadcasts' = << >>
            /\ Seen' = << >>
            /\ UNCHANGED <<GameState, CurrentPath, PathCellSet>>
       ELSE /\ \E TargetGrid \in {GetCurrentTargetGridPosition} :
                 IF TargetGrid = NoCell
                 THEN /\ Broadcasts' = << >>
                      /\ Seen' = << >>
                      /\ UNCHANGED <<CurrentPath, PathCellSet>>
                 ELSE \E r \in {FindPathFromWorld(PlayerWorldLocation, TargetGrid)} :
                        /\ CurrentPath' = r.Result
                        /\ PathCellSet' = SeqRange(r.Result.PathGridCoordinates)
                        /\ Broadcasts' = IF r.Result.bSuccess
                                         THEN << <<"OnPathUpdated">> >>
                                         ELSE << >>
                        /\ Seen' = IF r.Result.bSuccess THEN <<GameState>> ELSE << >>
            /\ GameState' = [GameState EXCEPT !.bPathVisible = TRUE]
    /\ UNCHANGED <<MazeGridData, ExitActor, KeyActor, Pathfinder, Discovered, Fired>>
    /\ UNCHANGED <<genVars, pathVars, Query, Callers>>

HidePath ==
    /\ Called("HidePath")
    /\ GameState' = [GameState EXCEPT !.bPathVisible = FALSE]
    /\ Broadcasts' = << >>
    /\ Seen' = << >>
    /\ UNCHANGED <<CurrentPath, PathCellSet, MazeGridData, ExitActor, KeyActor, Pathfinder,
                   Discovered, Fired>>
    /\ UNCHANGED <<genVars, pathVars, Query, Callers>>

\* TogglePath(PlayerWorldLocation)
TogglePath(PlayerWorldLocation) ==
    IF GameState.bPathVisible THEN HidePath ELSE ShowPath(PlayerWorldLocation)

----------------------------------------------------------------------------
(* Specifications *)

Configs(Seeds) ==
    [Seed : Seeds, SizeX : MinSize..MaxSize, SizeY : MinSize..MaxSize,
     Algorithm : Algorithms, CellSize : {2}]

GenInit ==
    /\ CachedGrid = << >>
    /\ CachedSize = <<0, 0>>
    /\ PrimFrontier = << >>
    /\ gpc = "idle"
    /\ Config = NoConfig
    /\ DirectionsSize = <<0, 0>>
    /\ Random = 0
    /\ DirectionsGrid = << >>
    /\ CarveStack = << >>
    /\ Sets = << >>
    /\ Edges = << >>
    /\ Entered = << >>
    /\ Added = << >>
    /\ Cells = << >>
    /\ calls = 0
    /\ History = << >>

\* UMazePathfinder as constructed
PathInit ==
    /\ CachedCells = << >>
    /\ MazeSize = <<0, 0>>
    /\ CellSize = DefaultCellSize
    /\ bIsInitialized = FALSE
    /\ Query = NoQuery

\* AMazeManager as constructed, with no asset and no actors assigned
MgrInit ==
    /\ GameState = DefaultGameState
    /\ CurrentPath = DefaultPathResult
    /\ PathCellSet = {}
    /\ MazeGridData = NoAsset
    /\ ExitActor = NoActor
    /\ KeyActor = NoActor
    /\ Pathfinder = FALSE
    /\ LastCall = "None"
    /\ Prior = DefaultGameState
    /\ Broadcasts = << >>
    /\ Discovered = << >>
    /\ Fired = << >>
    /\ Seen = << >>

NoCallers == Callers = [c \in CallerIds |-> IdleCall]

Init == GenInit /\ PathInit /\ MgrInit /\ NoCallers

\* One GenerateMaze call on a new generator; the stream is left unspecified.
Generate ==
    /\ calls = 0
    /\ \E cfg \in Configs({0}) : GenerateMaze(cfg, AnyStream)

\* The call returns; no record of results is kept.
Return == \E cfg \in Configs({0}) : GenerateMazeReturn(cfg) /\ UNCHANGED History

Next ==
    \/ Generate
    \/ GeneratorStep
    \/ Return

Spec == Init /\ [][Next]_vars

\* Up to MaxCalls GenerateMaze calls on one generator, each with a seeded stream.
GenerateSeeded ==
    /\ calls < MaxCalls
    /\ \E cfg \in Configs(0..MaxSeed) : GenerateMaze(cfg, NewRandomStream(cfg.Seed))

\* The call returns and the caller records the configuration it passed with
\* the cells it got.
ReturnSeeded ==
    \E cfg \in Configs(0..MaxSeed) :
        /\ GenerateMazeReturn(cfg)
        /\ History' = Append(History, <<cfg, Cells'>>)

NextSeed ==
    \/ GenerateSeeded
    \/ GeneratorStep
    \/ ReturnSeeded

SpecSeed == Init /\ [][NextSeed]_vars

\* The pathfinder alone, on every maze size of at most MaxDimX x MaxDimY and
\* every cell array of at most MaxCells cells that has the cells of that size
\* or up to MaxMismatch cells less or more.
InputCell(b) == [GridPosition |-> <<0, 0>>, WorldPosition |-> <<0, 0, 0>>, bIsFloor |-> b]

InputCells ==
    UNION { {[k \in 1..n |-> InputCell(f[k])] : f \in [1..n -> BOOLEAN]} : n \in 0..MaxCells }

InputSizes == (0..MaxDimX) \X (0..MaxDimY)

\* Grid positions asked about: the maze and one cell around it.
Points == (-1..MaxDimX) \X (-1..MaxDimY)

\* World positions asked about (half units): the centre of every point for
\* the cell size 2 that Initialize is given.
WorldPoints == {<<4 * p[1] + 2, 4 * p[2] + 2, 0>> : p \in Points}

InitializeAny ==
    /\ Query.Op = "None"
    /\ \E InCells \in InputCells, InMazeSize \in InputSizes :
        /\ Abs(Len(InCells) - InMazeSize[1] * InMazeSize[2]) <= MaxMismatch
        /\ Initialize(InCells, InMazeSize, 2)

FindPathAny == \E Start \in Points, End \in Points : CallFindPath(Start, End)

FindPathFromWorldAny ==
    \E WorldStart \in WorldPoints, GridEnd \in Points : CallFindPathFromWorld(WorldStart, GridEnd)

IsValidCellAny == \E GridPosition \in Points : CallIsValidCell(GridPosition)

FindNearestWalkableCellAny == \E GridPosition \in Points : CallFindNearestWalkableCell(GridPosition)

NextPath ==
    \/ InitializeAny
    \/ FindPathAny
    \/ FindPathFromWorldAny
    \/ IsValidCellAny
    \/ FindNearestWalkableCellAny
    \/ TakeResult

SpecPath == Init /\ [][NextPath]_vars

\* A generated maze loaded into the pathfinder: Initialize with the returned
\* cells, the configured size and cell size, then FindPath between floor cells.
InitializeFromMaze ==
    /\ gpc = "done"
    /\ Query.Op = "None"
    /\ CachedCells # Cells
    /\ \E cfg \in Configs({0}) :
          /\ CachedSize = <<cfg.SizeX, cfg.SizeY>>
          /\ Cells = CellsOf(CachedGrid, cfg)
          /\ Initialize(Cells, <<cfg.SizeX, cfg.SizeY>>, cfg.CellSize)

FloorCells(Array) == {Array[k].GridPosition : k \in {j \in DOMAIN Array : Array[j].bIsFloor}}

FindPathInMaze ==
    /\ Query.Op = "None"
    /\ gpc = "done"
    /\ CachedCells = Cells
    /\ \E Start \in FloorCells(Cells), End \in FloorCells(Cells) : CallFindPath(Start, End)

NextMaze ==
    \/ Generate
    \/ GeneratorStep
    \/ Return
    \/ InitializeFromMaze
    \/ FindPathInMaze
    \/ TakeResult

SpecMaze == Init /\ [][NextMaze]_vars

\* GenerateMaze is BlueprintCallable and tests nothing of its argument: the
\* ClampMin of SizeX and SizeY limits what the editor's property panel lets a
\* user type, not what a caller passes.  Here the width and the height are 0
\* or MinSize..MaxSize.
AnySizeConfigs ==
    [Seed : {0}, SizeX : {0} \cup (MinSize..MaxSize), SizeY : {0} \cup (MinSize..MaxSize),
     Algorithm : Algorithms, CellSize : {2}]

\* The calls that index an array outside its range.  With no row,
\* CarvePassagesFrom evaluates Grid[0].Num() (line 146) for the first
\* direction with NextX >= 0.  With no row or no column, GeneratePrims ORs
\* into Grid[StartY][StartX] (lines 184-186, 220), where RandRange(0, -1)
\* gave 0.  GenerateKruskals indexes nothing when there is no room.
IndexesOutOfRange(cfg) ==
    \/ cfg.Algorithm = "RecursiveBacktracker" /\ DirectionsSizeY(cfg) = 0
    \/ cfg.Algorithm = "Prims" /\ (DirectionsSizeX(cfg) = 0 \/ DirectionsSizeY(cfg) = 0)

\* The out-of-range access stops the program: TArray's range check fails, or,
\* without range checks, the element of an array with no allocation is
\* accessed.  Nothing is returned.  (The other outcome of the backtracker's
\* out-of-range read, a read that gives some number, is GenerateBacktracker:
\* NextY < Grid.Num() is false whatever was read.)
GenerateMazeAbort(cfg) ==
    /\ gpc \in {"idle", "done"}
    /\ IndexesOutOfRange(cfg)
    /\ Config' = ReadAtCall(cfg)
    /\ DirectionsSize' = <<DirectionsSizeX(cfg), DirectionsSizeY(cfg)>>
    /\ calls' = calls + 1
    /\ Cells' = << >>
    /\ gpc' = "aborted"
    /\ UNCHANGED <<CachedGrid, CachedSize, PrimFrontier, Random, DirectionsGrid, CarveStack,
                   Sets, Edges, History, Entered, Added>>
    /\ UNCHANGED <<pathVars, Query, otherVars>>

GenerateAnySize ==
    /\ calls = 0
    /\ \E cfg \in AnySizeConfigs :
          \/ GenerateMaze(cfg, AnyStream)
          \/ GenerateMazeAbort(cfg)

ReturnAnySize == \E cfg \in AnySizeConfigs : GenerateMazeReturn(cfg) /\ UNCHANGED History

NextAnySize ==
    \/ GenerateAnySize
    \/ GeneratorStep
    \/ ReturnAnySize

SpecAnySize == Init /\ [][NextAnySize]_vars

\* Mazes generated with cell sizes 1..MaxCellSize, loaded into the pathfinder
\* with their width, height and cell size, and GridToWorld asked for the
\* positions of Points.
SizedConfigs ==
    [Seed : {0}, SizeX : MinSize..MaxSize, SizeY : MinSize..MaxSize,
     Algorithm : Algorithms, CellSize : 1..MaxCellSize]

ReturnSized == \E cfg \in SizedConfigs : GenerateMazeReturn(cfg) /\ UNCHANGED History

InitializeFromSizedMaze ==
    /\ gpc = "done"
    /\ Query.Op = "None"
    /\ CachedCells # Cells
    /\ \E cfg \in SizedConfigs :
          /\ CachedSize = <<cfg.SizeX, cfg.SizeY>>
          /\ Cells = CellsOf(CachedGrid, cfg)
          /\ Initialize(Cells, <<cfg.SizeX, cfg.SizeY>>, cfg.CellSize)

\* Positions are asked once a maze is returned, before and after it is loaded.
GridToWorldAny ==
    /\ gpc = "done"
    /\ Query.Op = "None"
    /\ \E GridPosition \in Points : CallGridToWorld(GridPosition)

NextCoords ==
    \/ Generate
    \/ GeneratorStep
    \/ ReturnSized
    \/ InitializeFromSizedMaze
    \/ GridToWorldAny
    \/ TakeResult

SpecCoords == Init /\ [][NextCoords]_vars

\* One AMazeManager in play.  The level designer has assigned no asset, an
\* asset whose cell array is one cell short, or a valid asset of at most
\* MaxAssetX x MaxAssetY cells of size 2 with any floors; the Exit and Key
\* actors are missing or stand at one of Places; the player asks for the path
\* from one of Places.
Assets ==
    {NoAsset}
    \cup {[Assigned |-> TRUE, SizeX |-> x, SizeY |-> y, CellSize |-> 2,
           Cells |-> [k \in 1..(x * y) |-> InputCell(f[k])]]
          : <<x, y, f>> \in UNION { {<<sz[1], sz[2], g>> :
                                        g \in [1..(sz[1] * sz[2]) -> BOOLEAN]}
                                    : sz \in (1..MaxAssetX) \X (1..MaxAssetY) } }
    \cup {[Assigned |-> TRUE, SizeX |-> MaxAssetX, SizeY |-> 1, CellSize |-> 2,
           Cells |-> [k \in 1..(MaxAssetX - 1) |-> InputCell(TRUE)]]}

\* The centres of cell (0, 0), of cell (MaxAssetX - 1, MaxAssetY - 1) and of
\* the position two columns right of the largest grid, for cell size 2.
Places ==
    {<<2, 2, 0>>,
     <<4 * (MaxAssetX - 1) + 2, 4 * (MaxAssetY - 1) + 2, 0>>,
     <<4 * (MaxAssetX + 1) + 2, 2, 0>>}

InitManager ==
    /\ GenInit
    /\ PathInit
    /\ GameState = DefaultGameState
    /\ CurrentPath = DefaultPathResult
    /\ PathCellSet = {}
    /\ MazeGridData \in Assets
    /\ ExitActor \in Places \cup {NoActor}
    /\ KeyActor \in Places \cup {NoActor}
    /\ Pathfinder = FALSE
    /\ LastCall = "None"
    /\ Prior = DefaultGameState
    /\ Broadcasts = << >>
    /\ Discovered = << >>
    /\ Fired = << >>
    /\ Seen = << >>
    /\ NoCallers

ShowPathAny == \E PlayerWorldLocation \in Places : ShowPath(PlayerWorldLocation)

TogglePathAny == \E PlayerWorldLocation \in Places : TogglePath(PlayerWorldLocation)

NextManager ==
    \/ BeginPlay
    \/ NotifyExitDiscovered
    \/ NotifyKeyCollected
    \/ ShowPathAny
    \/ HidePath
    \/ TogglePathAny

SpecManager == InitManager /\ [][NextManager]_vars

\* NumCallers callers of one pathfinder.  Initialize is called only while no
\* call is running, with the cells of a size of at most MaxSharedX x MaxSharedY;
\* the callers ask about the positions of that largest grid.
SharedPoints == (0..(MaxSharedX - 1)) \X (0..(MaxSharedY - 1))

InitializeShared ==
    /\ \A c \in CallerIds : Callers[c].pc = "idle"
    /\ \E InMazeSize \in (1..MaxSharedX) \X (1..MaxSharedY) :
       \E f \in [1..(InMazeSize[1] * InMazeSize[2]) -> BOOLEAN] :
          Initialize([k \in 1..(InMazeSize[1] * InMazeSize[2]) |-> InputCell(f[k])],
                     InMazeSize, 2)

FindPathShared ==
    \E c \in CallerIds, Start \in SharedPoints, End \in SharedPoints : StartFindPath(c, Start, End)

FindPathFromWorldShared ==
    \E c \in CallerIds, Start \in SharedPoints, GridEnd \in SharedPoints :
        StartFindPathFromWorld(c, GridToWorld(Start), GridEnd)

FindPathStepShared == \E c \in CallerIds : FindPathStep(c)

IsValidCellShared ==
    \E c \in CallerIds, GridPosition \in SharedPoints : RunIsValidCell(c, GridPosition)

FindNearestWalkableCellShared ==
    \E c \in CallerIds, GridPosition \in SharedPoints :
        RunFindNearestWalkableCell(c, GridPosition)

TakeReturnedShared == \E c \in CallerIds : TakeReturned(c)

NextConcurrent ==
    \/ InitializeShared
    \/ FindPathShared
    \/ FindPathFromWorldShared
    \/ FindPathStepShared
    \/ IsValidCellShared
    \/ FindNearestWalkableCellShared
    \/ TakeReturnedShared

SpecConcurrent == Init /\ [][NextConcurrent]_vars

\* One GenerateMaze call with any positive width and height up to MaxSize,
\* below MinSize too: the directions grids have 1 to 9 rooms, square or not.
\* The cells returned are loaded into a pathfinder with the same size.
PositiveConfigs ==
    [Seed : {0}, SizeX : 1..MaxSize, SizeY : 1..MaxSize, Algorithm : Algorithms, CellSize : {2}]

GeneratePositive ==
    /\ calls = 0
    /\ \E cfg \in PositiveConfigs : GenerateMaze(cfg, AnyStream)

ReturnPositive == \E cfg \in PositiveConfigs : GenerateMazeReturn(cfg) /\ UNCHANGED History

InitializeFromPositiveMaze ==
    /\ gpc = "done"
    /\ Query.Op = "None"
    /\ CachedCells # Cells
    /\ Initialize(Cells, CachedSize, 2)

NextPositive ==
    \/ GeneratePositive
    \/ GeneratorStep
    \/ ReturnPositive
    \/ InitializeFromPositiveMaze

SpecPositive == Init /\ [][NextPositive]_vars

\* One GenerateMaze call with Prim's algorithm and any positive width and
\* height up to MaxSize.  The while loop of GeneratePrims runs on by itself:
\* an iteration that can be taken is taken, and so is the return.
PrimsConfigs ==
    [Seed : {0}, SizeX : 1..MaxSize, SizeY : 1..MaxSize, Algorithm : {"Prims"}, CellSize : {2}]

GeneratePrimsOnly ==
    /\ calls = 0
    /\ \E cfg \in PrimsConfigs : GenerateMaze(cfg, AnyStream)

ReturnPrims == \E cfg \in PrimsConfigs : GenerateMazeReturn(cfg) /\ UNCHANGED History

NextPrims ==
    \/ GeneratePrimsOnly
    \/ PrimsStep
    \/ PrimsReturn
    \/ ReturnPrims

SpecPrims == Init /\ [][NextPrims]_vars /\ WF_vars(PrimsStep) /\ WF_vars(PrimsReturn)

\* One GenerateMaze call with the recursive backtracker and any positive width
\* and height up to MaxSize.  The recursion runs on by itself: a loop iteration
\* that can be taken is taken, and a call whose loop is over returns.
GenerateBacktrackerOnly ==
    /\ calls = 0
    /\ \E cfg \in PositiveConfigs :
          cfg.Algorithm = "RecursiveBacktracker" /\ GenerateMaze(cfg, AnyStream)

NextBacktracker ==
    \/ GenerateBacktrackerOnly
    \/ CarvePassagesFrom
    \/ CarveReturn
    \/ ReturnPositive

SpecBacktracker ==
    Init /\ [][NextBacktracker]_vars /\ WF_vars(CarvePassagesFrom) /\ WF_vars(CarveReturn)

----------------------------------------------------------------------------
(* Graphs on cells *)

Adjacent4(a, b) == Abs(a[1] - b[1]) + Abs(a[2] - b[2]) = 1

\* The cells of F reachable from the cells of S by moves between 4-adjacent
\* cells of F.
RECURSIVE Reachable(_, _)
Reachable(S, F) ==
    LET More == {c \in F \ S : \E d \in S : Adjacent4(c, d)}
    IN IF More = {} THEN S ELSE Reachable(S \cup More, F)

Connected(F) == \A a \in F : Reachable({a}, F) = F

\* The open passages of a directions grid, one per pair of adjacent rooms:
\* <<room, East>> or <<room, South>>, open when either room has the bit.
OpenPassages(Grid) ==
    {p \in Rooms(GridSizeX(Grid), GridSizeY(Grid)) \X {East, South} :
        LET X == p[1][1]
            Y == p[1][2]
            NextX == X + GetDirectionDeltaX(p[2])
            NextY == Y + GetDirectionDeltaY(p[2])
        IN /\ InGrid(Grid, NextX, NextY)
           /\ \/ HasBit(Grid[Y][X], p[2])
              \/ HasBit(Grid[NextY][NextX], GetOppositeDirection(p[2]))}

\* Rooms joined by an open passage.
RoomsJoined(Grid, a, b) ==
    \E p \in OpenPassages(Grid) :
        LET n == <<p[1][1] + GetDirectionDeltaX(p[2]), p[1][2] + GetDirectionDeltaY(p[2])>>
        IN {a, b} = {p[1], n}

RECURSIVE RoomsReachable(_, _)
RoomsReachable(S, Grid) ==
    LET All == Rooms(GridSizeX(Grid), GridSizeY(Grid))
        More == {c \in All \ S : \E d \in S : RoomsJoined(Grid, c, d)}
    IN IF More = {} THEN S ELSE RoomsReachable(S \cup More, Grid)

----------------------------------------------------------------------------
(* Claims *)

\* C1: in the cells GenerateMaze returned, for widths and heights of 5 and
\* more, odd or even, any of the three algorithms and any outcome of the
\* random choices, every floor cell is reachable from every other floor cell
\* by moves between 4-adjacent floor cells.
C1_FloorConnected == gpc = "done" => Connected(FloorCells(Cells))

\* A maze of even width was returned, with its rooms and passages as floor.
C1_Witness ==
    /\ gpc = "done"
    /\ CachedSize = <<MinSize + 1, MinSize>>
    /\ Cardinality(FloorCells(Cells)) > 9
    /\ Cardinality(FloorCells(Cells)) < Len(Cells)

\* C2: when an algorithm has returned its directions grid, the grid has
\* exactly roomCount - 1 open passages (one counted per pair of adjacent
\* rooms) and every room is joined to room (0, 0): a spanning tree.
C2_SpanningTree ==
    gpc = "carved" =>
        LET All == Rooms(GridSizeX(DirectionsGrid), GridSizeY(DirectionsGrid))
        IN /\ Cardinality(OpenPassages(DirectionsGrid)) = Cardinality(All) - 1
           /\ RoomsReachable({<<0, 0>>}, DirectionsGrid) = All

\* Kruskal's algorithm returned a grid of 9 rooms.
C2_Witness ==
    /\ gpc = "carved"
    /\ Config.Algorithm = "Kruskals"
    /\ Cardinality(Rooms(GridSizeX(DirectionsGrid), GridSizeY(DirectionsGrid))) = 9
    /\ Cardinality(OpenPassages(DirectionsGrid)) = 8

\* C3: two GenerateMaze calls on one generator with the same seed, width,
\* height and algorithm return the same cells, whatever was generated in
\* between.
C3_Deterministic ==
    \A i \in DOMAIN History, j \in DOMAIN History :
        History[i][1] = History[j][1] => History[i][2] = History[j][2]

\* The same configuration was generated before and after a Prim's generation
\* of another configuration.
C3_Witness ==
    /\ Len(History) = 3
    /\ History[1][1] = History[3][1]
    /\ History[2][1] # History[1][1]
    /\ History[2][1].Algorithm = "Prims"
    /\ History[1][2] = History[3][2]
    /\ History[1][2] # << >>

----------------------------------------------------------------------------
(* The pathfinder's grid as a graph, read off the members directly *)

\* The in-bounds positions whose cell exists and is floor.
WalkableCells ==
    {p \in (0..(MazeSize[1] - 1)) \X (0..(MazeSize[2] - 1)) :
        LET k == p[2] * MazeSize[1] + p[1] + 1
        IN k \in DOMAIN CachedCells /\ CachedCells[k].bIsFloor}

\* Number of moves of a shortest walk from the set S (n moves away from the
\* start) to b inside F; -1 when there is none.
RECURSIVE DistanceFrom(_, _, _, _)
DistanceFrom(S, b, F, n) ==
    IF b \in S THEN n
    ELSE LET More == {c \in F \ S : \E d \in S : Adjacent4(c, d)}
         IN IF More = {} THEN -1 ELSE DistanceFrom(S \cup More, b, F, n + 1)

GraphDistance(a, b) == DistanceFrom({a}, b, WalkableCells, 0)

PathQueries == {"FindPath", "FindPathFromWorld"}

\* The indices at which the last call read CachedCells.
ReadIndices == {CellIndexRead(p) : p \in Query.Tested} \ {NoRead}

\* C4: on an initialized pathfinder, FindPath(a, b) for walkable a and b with
\* b reachable from a succeeds with PathLength - 1 equal to the graph
\* distance from a to b; for a = b the path is [a] and PathLength is 1.
C4_ShortestPath ==
    (/\ Query.Op = "FindPath"
     /\ bIsInitialized
     /\ {Query.Start, Query.End} \subseteq WalkableCells
     /\ Query.End \in Reachable({Query.Start}, WalkableCells))
    => /\ Query.Result.bSuccess
       /\ Query.Result.PathLength - 1 = GraphDistance(Query.Start, Query.End)
       /\ Query.Start = Query.End =>
            /\ Query.Result.PathGridCoordinates = <<Query.Start>>
            /\ Query.Result.PathLength = 1

\* FindPath returned a path of 5 cells between cells 2 columns apart.
C4_Witness ==
    /\ Query.Op = "FindPath"
    /\ Query.Result.bSuccess
    /\ Query.Result.PathLength = 5
    /\ Abs(Query.Start[1] - Query.End[1]) = 2
    /\ Query.Start[2] = Query.End[2]

\* C5: a successful FindPath(start, end) result starts at start, ends at end,
\* holds only in-bounds floor cells, moves one cardinal step at a time, holds
\* no cell twice, and has as many world positions, and the PathLength, as it
\* has grid coordinates.
C5_PathWellFormed ==
    (Query.Op = "FindPath" /\ Query.Result.bSuccess) =>
        LET Path == Query.Result.PathGridCoordinates
        IN /\ Len(Path) >= 1
           /\ Path[1] = Query.Start
           /\ Path[Len(Path)] = Query.End
           /\ \A k \in DOMAIN Path : Path[k] \in WalkableCells
           /\ \A k \in 1..(Len(Path) - 1) : Adjacent4(Path[k], Path[k + 1])
           /\ \A j \in DOMAIN Path, k \in DOMAIN Path : j # k => Path[j] # Path[k]
           /\ Len(Query.Result.PathWorldPositions) = Len(Path)
           /\ Query.Result.PathLength = Len(Path)

\* FindPath returned a path that turns a corner.
C5_Witness ==
    /\ Query.Op = "FindPath"
    /\ Query.Result.bSuccess
    /\ Len(Query.Result.PathGridCoordinates) >= 3
    /\ Query.Start[1] # Query.End[1]
    /\ Query.Start[2] # Query.End[2]

\* C6: FindPath(start, end) succeeds exactly when the pathfinder is
\* initialized, start and end are in-bounds floor cells and end is reachable
\* from start; a start or end that is a wall or out of bounds is rejected
\* with no cell visited and no cell but start and end looked at.
C6_SuccessIff ==
    Query.Op = "FindPath" =>
        /\ Query.Result.bSuccess <=>
             (/\ bIsInitialized
              /\ {Query.Start, Query.End} \subseteq WalkableCells
              /\ Query.End \in Reachable({Query.Start}, WalkableCells))
        /\ ~({Query.Start, Query.End} \subseteq WalkableCells) =>
             /\ Query.Visited = {}
             /\ Query.Tested \subseteq {Query.Start, Query.End}

\* FindPath searched between two floor cells and found no path.
C6_Witness ==
    /\ Query.Op = "FindPath"
    /\ bIsInitialized
    /\ {Query.Start, Query.End} \subseteq WalkableCells
    /\ ~Query.Result.bSuccess
    /\ Query.Visited # {}

\* C7: on the cells of a generated maze, loaded with the maze's width, height
\* and cell size, FindPath between two floor cells succeeds.
C7_GeneratedMazeHasPath ==
    (/\ Query.Op = "FindPath"
     /\ gpc = "done"
     /\ CachedCells = Cells
     /\ {Query.Start, Query.End} \subseteq FloorCells(Cells))
    => Query.Result.bSuccess

\* FindPath returned a path of 9 cells or more in a generated maze of even
\* width and height.
C7_Witness ==
    /\ Query.Op = "FindPath"
    /\ gpc = "done"
    /\ CachedCells = Cells
    /\ MazeSize = <<MinSize + 1, MinSize + 1>>
    /\ Query.Result.bSuccess
    /\ Query.Result.PathLength >= 9

\* C8: a failed FindPath or FindPathFromWorld result has bSuccess false, no
\* grid coordinates, no world positions and PathLength 0.
C8_FailureIsEmpty ==
    (Query.Op \in PathQueries /\ ~Query.Result.bSuccess) =>
        /\ Query.Result.PathGridCoordinates = << >>
        /\ Query.Result.PathWorldPositions = << >>
        /\ Query.Result.PathLength = 0

\* A search from a resolved start visited several cells and failed.
C8_Witness ==
    /\ Query.Op = "FindPathFromWorld"
    /\ bIsInitialized
    /\ ~Query.Result.bSuccess
    /\ Cardinality(Query.Visited) >= 2

\* C9: when the last Initialize got a cell array whose length differs from
\* width * height, FindPath and FindPathFromWorld fail, and no call reads
\* CachedCells at an index outside 0..length-1.
C9_MismatchFailsCleanly ==
    Len(CachedCells) # MazeSize[1] * MazeSize[2] =>
        /\ Query.Op \in PathQueries => ~Query.Result.bSuccess
        /\ ReadIndices \subseteq 0..(Len(CachedCells) - 1)

\* FindPathFromWorld, given an array one cell short, looked at the in-bounds
\* position of the missing cell and at cells that exist.
C9_Witness ==
    /\ Query.Op = "FindPathFromWorld"
    /\ Len(CachedCells) = MazeSize[1] * MazeSize[2] - 1
    /\ ~Query.Result.bSuccess
    /\ <<MazeSize[1] - 1, MazeSize[2] - 1>> \in Query.Tested
    /\ ReadIndices # {}

\* C10: on a pathfinder that is not ready, FindPath and FindPathFromWorld
\* fail, IsValidCell returns false for every coordinate and
\* FindNearestWalkableCell returns (-1, -1) for every origin.
C10_NotReadyFailsUniformly ==
    ~bIsInitialized =>
        /\ Query.Op \in PathQueries => ~Query.Result.bSuccess
        /\ Query.Op = "IsValidCell" => ~Query.Valid
        /\ Query.Op = "FindNearestWalkableCell" => Query.Found = NoCell

\* C11: the result FindPath returns when the search between two walkable
\* cells is exhausted without reaching the end differs from the result it
\* returns on this pathfinder when the start is out of bounds or a wall.
C11_FailuresDistinguishable ==
    (/\ Query.Op = "FindPath"
     /\ bIsInitialized
     /\ IsValidCell(Query.Start)
     /\ IsValidCell(Query.End)
     /\ ~Query.Result.bSuccess)
    => \A p \in Points : ~IsValidCell(p) => FindPath(p, Query.End).Result # Query.Result

\* C12: a GenerateMaze call that was given a width or a height of 0 or less
\* does not return a cell array.
C12_NonPositiveSizeFails ==
    gpc = "done" => (CachedSize[1] > 0 /\ CachedSize[2] > 0)

\* Chebyshev distance: the Radius of the square ring around a that holds b.
RingDistance(a, b) == Max(Abs(a[1] - b[1]), Abs(a[2] - b[2]))

\* C13: for an origin inside the grid bounds of a grid with at least one
\* walkable cell, FindNearestWalkableCell returns a walkable cell with the
\* least ring distance to the origin among all walkable cells; for a walkable
\* origin it returns the origin.
C13_NearestIsMinimal ==
    (/\ Query.Op = "FindNearestWalkableCell"
     /\ InMazeBounds(Query.Start)
     /\ WalkableCells # {})
    => /\ Query.Found \in WalkableCells
       /\ \A c \in WalkableCells :
            RingDistance(Query.Start, Query.Found) <= RingDistance(Query.Start, c)
       /\ Query.Start \in WalkableCells => Query.Found = Query.Start

\* The origin and all cells next to it are walls or missing; the cell returned
\* is on the ring of radius 2, where it is not the first position scanned.
C13_Witness ==
    /\ Query.Op = "FindNearestWalkableCell"
    /\ bIsInitialized
    /\ InMazeBounds(Query.Start)
    /\ Query.Found \in WalkableCells
    /\ RingDistance(Query.Start, Query.Found) = 2
    /\ Cardinality(Query.Tested) > 10

\* C14: for every origin, inside or outside the grid bounds,
\* FindNearestWalkableCell returns (-1, -1) exactly when the grid has no
\* walkable cell, and otherwise a position for which IsValidCell is true.
C14_SentinelIffNoWalkable ==
    Query.Op = "FindNearestWalkableCell" =>
        /\ Query.Found = NoCell <=> WalkableCells = {}
        /\ Query.Found # NoCell => IsValidCell(Query.Found)

\* C15: for the cell size the pathfinder has, WorldToGrid of the world
\* position GridToWorld returned for a grid position is that grid position
\* (for every position asked, a valid cell or not); and in a generated maze
\* loaded with its cell size, the WorldPosition of every cell is GridToWorld
\* of its GridPosition.
C15_RoundTrip ==
    /\ Query.Op = "GridToWorld" => WorldToGrid(Query.World) = Query.Start
    /\ (gpc = "done" /\ CachedCells = Cells /\ bIsInitialized) =>
          \A k \in DOMAIN Cells :
              Cells[k].WorldPosition = GridToWorld(Cells[k].GridPosition)

\* GridToWorld was asked for a floor cell off the axes of a maze generated
\* and loaded with cell size 3.
C15_Witness ==
    /\ Query.Op = "GridToWorld"
    /\ gpc = "done"
    /\ CachedCells = Cells
    /\ bIsInitialized
    /\ CellSize = MaxCellSize
    /\ IsValidCell(Query.Start)
    /\ Query.Start[1] > 0
    /\ Query.Start[2] > 0
    /\ Query.World = Cells[GridToIndex(Query.Start) + 1].WorldPosition

\* C16: with NumCallers callers running FindPath, FindPathFromWorld,
\* IsValidCell and FindNearestWalkableCell at the same time on one pathfinder,
\* and no Initialize while a call runs, every call returns, in every
\* interleaving, what the same call returns when it runs alone.
C16_QueriesIndependent ==
    \A c \in CallerIds :
        LET call == Callers[c]
        IN call.pc = "returned" =>
             CASE call.Op = "FindPath" ->
                    call.Result = FindPath(call.Start, call.End).Result
               [] call.Op = "FindPathFromWorld" ->
                    call.Result = FindPathFromWorld(call.World, call.End).Result
               [] call.Op = "IsValidCell" ->
                    call.Valid = IsValidCell(call.Start)
               [] call.Op = "FindNearestWalkableCell" ->
                    call.Found = FindNearestWalkableCell(call.Start).Found
               [] OTHER -> FALSE

\* One caller got a path of 3 cells while the search of another caller, which
\* has visited a cell of that path, is still running.
C16_Witness ==
    \E c \in CallerIds, d \in CallerIds :
        /\ c # d
        /\ Callers[c].pc = "returned"
        /\ Callers[c].Op = "FindPath"
        /\ Callers[c].Result.bSuccess
        /\ Callers[c].Result.PathLength = 3
        /\ Callers[d].pc = "bfs"
        /\ Callers[d].Visited \cap SeqRange(Callers[c].Result.PathGridCoordinates) # {}
        /\ Cardinality(Callers[d].Visited) >= 2

----------------------------------------------------------------------------
(* The discovery state of AMazeManager *)

NotifyCalls == {"NotifyExitDiscovered", "NotifyKeyCollected"}

\* C17: a NotifyExitDiscovered call made when bExitDiscovered is already
\* true, and a NotifyKeyCollected call made when bHasKey is already true,
\* directly repeated or after other calls, leaves the whole GameState as it
\* was and broadcasts nothing.
C17_NotifyIdempotent ==
    /\ (LastCall = "NotifyExitDiscovered" /\ Prior.bExitDiscovered) =>
          (GameState = Prior /\ Broadcasts = << >>)
    /\ (LastCall = "NotifyKeyCollected" /\ Prior.bHasKey) =>
          (GameState = Prior /\ Broadcasts = << >>)

\* NotifyExitDiscovered was called again after the exit was discovered, the
\* key collected and the path shown.
C17_Witness ==
    /\ LastCall = "NotifyExitDiscovered"
    /\ Prior.bExitDiscovered
    /\ Prior.bHasKey
    /\ Prior.bPathVisible
    /\ Discovered = <<"Exit", "Key">>
    /\ Broadcasts = << >>

\* C18: a notify call entered with bHollowMaskPermanentlyLocked true leaves
\* it true, and IsHollowMaskAvailable() is false whenever it is true.
C18_LockIsLatch ==
    /\ (LastCall \in NotifyCalls /\ Prior.bHollowMaskPermanentlyLocked) =>
          GameState.bHollowMaskPermanentlyLocked
    /\ GameState.bHollowMaskPermanentlyLocked => ~IsHollowMaskAvailable(GameState)

\* The exit was discovered after the key had locked the Hollow Mask.
C18_Witness ==
    /\ LastCall = "NotifyExitDiscovered"
    /\ Prior.bHollowMaskPermanentlyLocked
    /\ ~Prior.bExitDiscovered
    /\ GameState.bExitDiscovered
    /\ GameState.bHollowMaskPermanentlyLocked

\* C19: IsHollowMaskAvailable() is true exactly when the first notify call
\* that took effect was NotifyExitDiscovered, also after the key is collected;
\* bHollowMaskPermanentlyLocked is true exactly when it was NotifyKeyCollected.
C19_FirstEventDecides ==
    /\ IsHollowMaskAvailable(GameState) <=> (Discovered # << >> /\ Discovered[1] = "Exit")
    /\ GameState.bHollowMaskPermanentlyLocked <=>
          (Discovered # << >> /\ Discovered[1] = "Key")

\* The key was collected after the exit was discovered: the Hollow Mask is
\* still available.
C19_Witness ==
    /\ Discovered = <<"Exit", "Key">>
    /\ LastCall = "NotifyKeyCollected"
    /\ IsHollowMaskAvailable(GameState)
    /\ ~GameState.bHollowMaskPermanentlyLocked

\* C20: in every reachable state CurrentTarget is Exit if bHasKey, else Key
\* if bExitDiscovered, else Exit; it is never None.
C20_TargetFollowsRule ==
    /\ GameState.CurrentTarget =
          (IF GameState.bHasKey THEN "Exit"
           ELSE IF GameState.bExitDiscovered THEN "Key"
           ELSE "Exit")
    /\ GameState.CurrentTarget # "None"

\* The exit was discovered without the key: the target is the key.
C20_Witness ==
    /\ LastCall = "NotifyExitDiscovered"
    /\ Discovered = <<"Exit">>
    /\ Prior.CurrentTarget = "Exit"
    /\ GameState.CurrentTarget = "Key"
    /\ Broadcasts = << <<"OnExitDiscovered">>, <<"OnHollowMaskUnlocked">>,
                       <<"OnTargetChanged", "Key">> >>

\* The broadcasts of the delegate Name among b
FiredOf(b, Name) == SelectSeq(b, LAMBDA e : e[1] = Name)

\* C21: a notify call broadcasts OnTargetChanged exactly when CurrentTarget
\* after the call differs from CurrentTarget before it, once and with the new
\* target; in a run it is broadcast at most twice, for Key and then for Exit,
\* and never when the key was collected before the exit was discovered.
C21_TargetChangedIffChanged ==
    /\ LastCall \in NotifyCalls =>
          FiredOf(Broadcasts, "OnTargetChanged") =
              (IF GameState.CurrentTarget # Prior.CurrentTarget
               THEN << <<"OnTargetChanged", GameState.CurrentTarget>> >>
               ELSE << >>)
    /\ FiredOf(Fired, "OnTargetChanged") \in
          { << >>,
            << <<"OnTargetChanged", "Key">> >>,
            << <<"OnTargetChanged", "Key">>, <<"OnTargetChanged", "Exit">> >> }
    /\ (Discovered # << >> /\ Discovered[1] = "Key") =>
          FiredOf(Fired, "OnTargetChanged") = << >>

\* The key was collected after the exit was discovered: the second change of
\* target of the run.
C21_Witness ==
    /\ LastCall = "NotifyKeyCollected"
    /\ Discovered = <<"Exit", "Key">>
    /\ Prior.CurrentTarget = "Key"
    /\ GameState.CurrentTarget = "Exit"
    /\ Broadcasts = << <<"OnKeyCollected">>, <<"OnTargetChanged", "Exit">> >>
    /\ Len(FiredOf(Fired, "OnTargetChanged")) = 2

\* C22: a notify call leaves true every one of bExitDiscovered, bHasKey,
\* bHollowMaskUnlocked and bHollowMaskPermanentlyLocked that was true when it
\* was entered; CanExitMaze() is true exactly when both notify calls have
\* taken effect, in either order, and a notify call entered with it true
\* leaves it true.
C22_FlagsMonotone ==
    /\ LastCall \in NotifyCalls =>
          /\ Prior.bExitDiscovered => GameState.bExitDiscovered
          /\ Prior.bHasKey => GameState.bHasKey
          /\ Prior.bHollowMaskUnlocked => GameState.bHollowMaskUnlocked
          /\ Prior.bHollowMaskPermanentlyLocked => GameState.bHollowMaskPermanentlyLocked
          /\ CanExitMaze(Prior) => CanExitMaze(GameState)
    /\ CanExitMaze(GameState) <=> SeqRange(Discovered) = {"Exit", "Key"}

\* The exit was discovered after the key was collected, and then the key
\* was notified once more.
C22_Witness ==
    /\ LastCall = "NotifyKeyCollected"
    /\ Discovered = <<"Key", "Exit">>
    /\ CanExitMaze(Prior)
    /\ CanExitMaze(GameState)
    /\ GameState.bHollowMaskPermanentlyLocked

\* C23: in a run each of OnExitDiscovered, OnKeyCollected and
\* OnHollowMaskUnlocked is broadcast at most once, and a notify call
\* broadcasts OnHollowMaskUnlocked exactly when it is the NotifyExitDiscovered
\* call that sets bHollowMaskUnlocked, which is the one that discovers the
\* exit while the key is not collected.
C23_EachEventOnce ==
    /\ \A Name \in {"OnExitDiscovered", "OnKeyCollected", "OnHollowMaskUnlocked"} :
          Len(FiredOf(Fired, Name)) <= 1
    /\ LastCall \in NotifyCalls =>
          /\ (FiredOf(Broadcasts, "OnHollowMaskUnlocked") # << >>) <=>
                (/\ LastCall = "NotifyExitDiscovered"
                 /\ ~Prior.bHollowMaskUnlocked
                 /\ GameState.bHollowMaskUnlocked)
          /\ (~Prior.bHollowMaskUnlocked /\ GameState.bHollowMaskUnlocked) <=>
                (/\ LastCall = "NotifyExitDiscovered"
                 /\ ~Prior.bExitDiscovered
                 /\ ~Prior.bHasKey)

\* Both events have happened, exit first, and both notify calls were
\* repeated: every delegate was broadcast once.
C23_Witness ==
    /\ Discovered = <<"Exit", "Key">>
    /\ LastCall = "NotifyExitDiscovered"
    /\ Prior.bExitDiscovered
    /\ Prior.bHasKey
    /\ Fired = << <<"OnExitDiscovered">>, <<"OnHollowMaskUnlocked">>,
                  <<"OnTargetChanged", "Key">>, <<"OnKeyCollected">>,
                  <<"OnTargetChanged", "Exit">> >>

\* C24: whenever bPathVisible is true, CurrentPath is a successful path
\* whose last cell is the grid position of the current target.
C24_VisiblePathLeadsToTarget ==
    GameState.bPathVisible =>
        /\ CurrentPath.bSuccess
        /\ CurrentPath.PathGridCoordinates # << >>
        /\ CurrentPath.PathGridCoordinates[Len(CurrentPath.PathGridCoordinates)] =
              GetCurrentTargetGridPosition

----------------------------------------------------------------------------
(* The directions grid and its conversion *)

\* A directions grid is being carved or has just been returned by its algorithm.
Carving == gpc \in Algorithms \cup {"carved"}

\* C25: in every state of each of the three algorithms, room (x, y) has its
\* East bit set exactly when room (x+1, y) has its West bit set, its South bit
\* exactly when room (x, y+1) has its North bit set, and no room of the first
\* or last column or row has the bit that points out of the grid.
C25_PassagesSymmetric ==
    Carving =>
        LET SizeX == GridSizeX(DirectionsGrid)
            SizeY == GridSizeY(DirectionsGrid)
        IN \A r \in Rooms(SizeX, SizeY) :
             LET X == r[1]
                 Y == r[2]
                 b == DirectionsGrid[Y][X]
             IN /\ IF X + 1 < SizeX
                   THEN HasBit(b, East) <=> HasBit(DirectionsGrid[Y][X + 1], West)
                   ELSE ~HasBit(b, East)
                /\ IF Y + 1 < SizeY
                   THEN HasBit(b, South) <=> HasBit(DirectionsGrid[Y + 1][X], North)
                   ELSE ~HasBit(b, South)
                /\ X = 0 => ~HasBit(b, West)
                /\ Y = 0 => ~HasBit(b, North)

\* The backtracker is three calls deep in a grid of 3 x 2 rooms and has
\* carved an East-West and a North-South passage.
C25_Witness ==
    /\ gpc = "RecursiveBacktracker"
    /\ DirectionsSize = <<3, 2>>
    /\ Len(CarveStack) = 3
    /\ \E r \in Rooms(3, 2) : HasBit(DirectionsGrid[r[2]][r[1]], East)
    /\ \E r \in Rooms(3, 2) : HasBit(DirectionsGrid[r[2]][r[1]], South)

\* What C26 says of the final grid Grid of FinalSizeX x FinalSizeY cells
\* converted from the directions grid DirGrid.
FloorIffRoomOrPassage(DirGrid, Grid, FinalSizeX, FinalSizeY) ==
    LET Open == OpenPassages(DirGrid)
        Odd(n) == n % 2 = 1
    IN /\ \A X \in 0..(FinalSizeX - 1), Y \in 0..(FinalSizeY - 1) :
             (Grid[Y][X] = 1) <=>
                 \/ ~Odd(X) /\ ~Odd(Y)
                 \/ Odd(X) /\ ~Odd(Y) /\ <<<<(X - 1) \div 2, Y \div 2>>, East>> \in Open
                 \/ ~Odd(X) /\ Odd(Y) /\ <<<<X \div 2, (Y - 1) \div 2>>, South>> \in Open
       /\ \A X \in 0..(FinalSizeX - 1), Y \in 0..(FinalSizeY - 1) :
             /\ Grid[Y][X] \in {0, 1}
             /\ (Odd(X) /\ Odd(Y)) => Grid[Y][X] = 0
             /\ (~Odd(FinalSizeX) /\ X = FinalSizeX - 1) => Grid[Y][X] = 0
             /\ (~Odd(FinalSizeY) /\ Y = FinalSizeY - 1) => Grid[Y][X] = 0

\* C26: the final grid that GenerateMaze stores when the algorithm has
\* returned is floor exactly on the cells with two even coordinates and on the
\* cells with one odd coordinate whose two adjacent rooms exist and are joined
\* by an open passage of the directions grid; every cell with two odd
\* coordinates is wall, and so is the whole last column (row) of an even
\* width (height).
C26_FloorIffRoomOrPassage ==
    [][(gpc = "carved" /\ gpc' = "done") =>
          FloorIffRoomOrPassage(DirectionsGrid, CachedGrid', CachedSize'[1], CachedSize'[2])]_vars

\* A maze of even width and even height was returned, with an open and a
\* closed passage cell.
C26_Witness ==
    /\ gpc = "done"
    /\ CachedSize = <<MaxSize, MaxSize - 2>>
    /\ \E X \in 0..(MaxSize - 1), Y \in 0..(MaxSize - 3) :
          X % 2 = 1 /\ Y % 2 = 0 /\ CachedGrid[Y][X] = 1
    /\ \E X \in 0..(MaxSize - 2), Y \in 0..(MaxSize - 3) :
          X % 2 = 0 /\ Y % 2 = 1 /\ CachedGrid[Y][X] = 0

\* C27: the array GenerateMaze returned for a positive width and height has
\* width * height cells, the cell at index y * width + x has GridPosition
\* (x, y), and a pathfinder initialized with the array and the same size is
\* ready, with GridToIndex giving every cell's own index.
C27_CellCountAndIndex ==
    gpc = "done" =>
        /\ Len(Cells) = CachedSize[1] * CachedSize[2]
        /\ \A X \in 0..(CachedSize[1] - 1), Y \in 0..(CachedSize[2] - 1) :
              Cells[Y * CachedSize[1] + X + 1].GridPosition = <<X, Y>>
        /\ (CachedCells = Cells /\ MazeSize = CachedSize) =>
              /\ bIsInitialized
              /\ \A k \in 1..Len(CachedCells) :
                    GridToIndex(CachedCells[k].GridPosition) = k - 1

\* A maze of 2 x 3 cells, smaller than the editor's minimum, was returned and
\* loaded into the pathfinder.
C27_Witness ==
    /\ gpc = "done"
    /\ CachedSize = <<2, 3>>
    /\ Len(Cells) = 6
    /\ CachedCells = Cells
    /\ MazeSize = <<2, 3>>
    /\ bIsInitialized

----------------------------------------------------------------------------
(* Prim's algorithm and the recursive backtracker *)

PrimsRunning == gpc = "Prims"

\* GeneratePrims has returned its grid to GenerateMaze.
PrimsReturned == gpc = "carved" /\ Config.Algorithm = "Prims"

AllRooms == Rooms(GridSizeX(DirectionsGrid), GridSizeY(DirectionsGrid))

\* The rooms that carry the tag Tag
Tagged(Tag) == {r \in AllRooms : HasBit(DirectionsGrid[r[2]][r[1]], Tag)}

\* C28: during Prim's generation no room carries both the Frontier tag (64)
\* and the In tag (128), and neither tag is one of the four direction bits.
C28_PrimTagsExclusive ==
    /\ (PrimsRunning \/ PrimsReturned) => Tagged(Frontier) \cap Tagged(In) = {}
    /\ \A Tag \in {Frontier, In}, Dir \in {East, North, South, West} :
          ~HasBit(Tag, Dir) /\ ~HasBit(Dir, Tag)

\* C29: Prim's generation, once started, returns, with the frontier empty
\* and every room tagged In; every room except one, the start, was added to
\* the frontier list exactly once and the start never; every room in the
\* frontier list has a neighbour tagged In, and there is one open passage per
\* room that was taken from the list and tagged In.
C29_PrimsTerminates ==
    /\ [](PrimsRunning =>
            /\ \A r \in AllRooms : Added[r] <= 1
            /\ \A k \in 1..Len(PrimFrontier) :
                  PrimGetInNeighbors(DirectionsGrid, PrimFrontier[k][1], PrimFrontier[k][2])
                      # << >>
            /\ Cardinality(OpenPassages(DirectionsGrid)) = Cardinality(Tagged(In)) - 1)
    /\ [](PrimsReturned =>
            /\ PrimFrontier = << >>
            /\ Tagged(In) = AllRooms
            /\ \A r \in AllRooms : Added[r] <= 1
            /\ Cardinality({r \in AllRooms : Added[r] = 0}) = 1)
    /\ PrimsRunning ~> PrimsReturned

\* Prim's algorithm returned a grid of 9 rooms, all tagged In, 8 of them
\* added to the frontier list once.
C29_Witness ==
    /\ PrimsReturned
    /\ DirectionsSize = <<3, 3>>
    /\ PrimFrontier = << >>
    /\ Cardinality(Tagged(In)) = 9
    /\ Cardinality({r \in AllRooms : Added[r] = 1}) = 8

BacktrackerRunning == gpc = "RecursiveBacktracker"

\* C30: in the recursive backtracker, every in-bounds neighbour of the room of
\* the innermost CarvePassagesFrom call, which is a room that call tests, has
\* a zero byte exactly when no CarvePassagesFrom call was made on it; no room
\* is entered twice, (0,0) is entered by GenerateBacktracker only, and when
\* the algorithm returns every room has been entered.
C30_ZeroIffUnvisited ==
    /\ (BacktrackerRunning /\ CarveStack # << >>) =>
          LET top == CarveStack[Len(CarveStack)]
          IN \A Dir \in {East, West, North, South} :
                LET NextX == top.X + GetDirectionDeltaX(Dir)
                    NextY == top.Y + GetDirectionDeltaY(Dir)
                IN InGrid(DirectionsGrid, NextX, NextY) =>
                      ((DirectionsGrid[NextY][NextX] = 0) <=> (Entered[<<NextX, NextY>>] = 0))
    /\ BacktrackerRunning =>
          /\ \A r \in AllRooms : Entered[r] <= 1
          /\ Entered[<<0, 0>>] = 1
    /\ (gpc = "carved" /\ Config.Algorithm = "RecursiveBacktracker") =>
          \A r \in AllRooms : Entered[r] = 1

\* The recursion has come round to room (0, 1) through at least three other
\* rooms: the call tests its neighbour (0, 0), the start room, which is
\* visited and has a non-zero byte.
C30_Witness ==
    /\ BacktrackerRunning
    /\ Len(CarveStack) >= 4
    /\ CarveStack[Len(CarveStack)].X = 0
    /\ CarveStack[Len(CarveStack)].Y = 1
    /\ DirectionsGrid[0][0] # 0
    /\ Entered[<<0, 0>>] = 1
    /\ Entered[<<0, 1>>] = 1

\* GenerateBacktracker has returned its grid to GenerateMaze.
BacktrackerReturned == gpc = "carved" /\ Config.Algorithm = "RecursiveBacktracker"

\* C31: the recursive backtracker, once started, returns, and there are never
\* more nested CarvePassagesFrom calls than the directions grid has rooms.
C31_BacktrackerTerminates ==
    /\ [](BacktrackerRunning => Len(CarveStack) <= Cardinality(AllRooms))
    /\ BacktrackerRunning ~> BacktrackerReturned

\* On a grid of 9 rooms the recursion is 9 calls deep: one call per room.
C31_Witness ==
    /\ BacktrackerRunning
    /\ DirectionsSize = <<3, 3>>
    /\ Len(CarveStack) = 9

----------------------------------------------------------------------------
(* Kruskal's algorithm and its union-find *)

KruskalsRunning == gpc = "Kruskals"

\* The two rooms an edge joins
EdgeRooms(Edge) ==
    {<<Edge.X, Edge.Y>>,
     <<Edge.X + GetDirectionDeltaX(Edge.Direction), Edge.Y + GetDirectionDeltaY(Edge.Direction)>>}

AdjacentRoomPairs == {{a, b} : <<a, b>> \in {q \in AllRooms \X AllRooms : Adjacent4(q[1], q[2])}}

\* The FKruskalSet of a room
SetOfRoom(r) == SetOf(r[1], r[2], DirectionsSize[1])

\* The pairs of rooms joined by an open passage
OpenPairs(Grid) ==
    {{p[1], <<p[1][1] + GetDirectionDeltaX(p[2]), p[1][2] + GetDirectionDeltaY(p[2])>>}
        : p \in OpenPassages(Grid)}

\* The rooms that the pairs of Pairs connect to the rooms of S
RECURSIVE JoinedTo(_, _)
JoinedTo(S, Pairs) ==
    LET More == UNION {P \in Pairs : P \cap S # {}} \ S
    IN IF More = {} THEN S ELSE JoinedTo(S \cup More, Pairs)

\* The edge a loop iteration processed: the one that is gone from Edges.
ProcessedEdges == SeqRange(Edges) \ SeqRange(Edges')

\* C32: Kruskal's generation starts with one candidate edge per pair of
\* adjacent rooms; every loop iteration processes one edge that was not
\* processed before, and the algorithm returns when none is left; the
\* iteration opens the passage of its edge when the two rooms had different
\* union-find roots and changes nothing in the grid otherwise; after every
\* iteration two rooms have the same root exactly when open passages connect
\* them.
C32_KruskalsEdges ==
    [][/\ (~KruskalsRunning /\ KruskalsRunning') =>
             /\ Len(Edges') = Cardinality(AdjacentRoomPairs')
             /\ {EdgeRooms(Edges'[k]) : k \in 1..Len(Edges')} = AdjacentRoomPairs'
       /\ (KruskalsRunning /\ ~KruskalsRunning') => Edges = << >>
       /\ (KruskalsRunning /\ KruskalsRunning') =>
             /\ Len(Edges') = Len(Edges) - 1
             /\ SeqRange(Edges') \subseteq SeqRange(Edges)
             /\ Cardinality(SeqRange(Edges')) = Len(Edges')
             /\ \A Edge \in ProcessedEdges :
                   \E Before \in {OpenPairs(DirectionsGrid)} :
                      IF Cardinality({GetRoot(Sets, SetOfRoom(r)) : r \in EdgeRooms(Edge)}) = 2
                      THEN /\ OpenPairs(DirectionsGrid') = Before \cup {EdgeRooms(Edge)}
                           /\ EdgeRooms(Edge) \notin Before
                      ELSE DirectionsGrid' = DirectionsGrid
             /\ \E Pairs \in {OpenPairs(DirectionsGrid')} :
                \E RootOf \in {[r \in AllRooms |-> GetRoot(Sets', SetOfRoom(r))]} :
                   \A a \in {r \in AllRooms : RootOf[r] = SetOfRoom(r)} :
                      {b \in AllRooms : RootOf[b] = RootOf[a]} = JoinedTo({a}, Pairs)
      ]_vars

\* Kruskal's algorithm on 9 rooms has processed more edges than it opened:
\* an edge between two rooms of one set was skipped.
C32_Witness ==
    /\ KruskalsRunning
    /\ DirectionsSize = <<3, 3>>
    /\ Len(Edges) + Cardinality(OpenPassages(DirectionsGrid))
          < Cardinality(AdjacentRoomPairs)
    /\ Len(Edges) > 0

\* Following Parent from Set ends at a root within k links.
RECURSIVE ChainEnds(_, _, _)
ChainEnds(Parent, Set, k) ==
    IF Parent[Set] = NullSet THEN TRUE
    ELSE IF k = 0 THEN FALSE
    ELSE ChainEnds(Parent, Parent[Set], k - 1)

\* The Parent links have no cycle.
Forest(Parent) == \A Set \in DOMAIN Parent : ChainEnds(Parent, Set, Len(Parent))

\* C33: in Kruskal's generation the Parent links never form a cycle, so that
\* GetRoot ends; a loop iteration that calls ConnectTo (it changes a Parent)
\* does so on the sets of two rooms that had different roots, and after the
\* call the two sets have the same root.
C33_UnionFindForest ==
    [][(KruskalsRunning /\ KruskalsRunning') =>
          /\ Forest(Sets)
          /\ (Sets' # Sets) =>
                \A Edge \in ProcessedEdges :
                    LET CurrentSet == SetOf(Edge.X, Edge.Y, DirectionsSize[1])
                        NextSet == SetOf(Edge.X + GetDirectionDeltaX(Edge.Direction),
                                         Edge.Y + GetDirectionDeltaY(Edge.Direction),
                                         DirectionsSize[1])
                    IN /\ GetRoot(Sets, CurrentSet) # GetRoot(Sets, NextSet)
                       /\ Forest(Sets')
                       /\ GetRoot(Sets', CurrentSet) = GetRoot(Sets', NextSet)
                       /\ Cardinality({Set \in DOMAIN Sets : Sets[Set] = NullSet})
                             = Cardinality({Set \in DOMAIN Sets : Sets'[Set] = NullSet}) + 1
      ]_vars

\* ConnectTo has attached the root of a tree of several sets: a set is two
\* Parent links away from its root.
C33_Witness ==
    /\ KruskalsRunning
    /\ \E Set \in DOMAIN Sets : Sets[Set] # NullSet /\ Sets[Sets[Set]] # NullSet

----------------------------------------------------------------------------
(* Pathfinder queries *)

\* C34: a FindPathFromWorld(WorldStart, GridEnd) call returns what
\* FindPath(s, GridEnd) returns, where s is WorldToGrid(WorldStart) when that
\* cell is valid and FindNearestWalkableCell of it otherwise; it returns a
\* failure when that search finds no cell; and it returns a failure whenever
\* GridEnd is not a valid cell.
C34_FromWorldSnapsStartOnly ==
    Query.Op = "FindPathFromWorld" =>
        \E s \in {IF IsValidCell(WorldToGrid(Query.World))
                  THEN WorldToGrid(Query.World)
                  ELSE FindNearestWalkableCell(WorldToGrid(Query.World)).Found} :
           /\ (s # NoCell) => Query.Result = FindPath(s, Query.End).Result
           /\ (s = NoCell) => Query.Result = [DefaultPathResult EXCEPT !.bSuccess = FALSE]
           /\ ~IsValidCell(Query.End) =>
                 /\ ~Query.Result.bSuccess
                 /\ Query.Result.PathGridCoordinates = << >>

\* FindPathFromWorld from a world position on a wall cell found a path of
\* several cells from the nearest walkable cell.
C34_Witness ==
    /\ Query.Op = "FindPathFromWorld"
    /\ bIsInitialized
    /\ Query.Result.bSuccess
    /\ Query.Result.PathLength >= 3
    /\ ~IsValidCell(WorldToGrid(Query.World))
    /\ Query.Result.PathGridCoordinates[1] = FindNearestWalkableCell(WorldToGrid(Query.World)).Found

\* The call of caller c and the call of caller d were the same query.
SameQuery(c, d) ==
    /\ Callers[c].pc = "returned"
    /\ Callers[d].pc = "returned"
    /\ Callers[c].Op = Callers[d].Op
    /\ Callers[c].Start = Callers[d].Start
    /\ Callers[c].End = Callers[d].End
    /\ Callers[c].World = Callers[d].World

\* C35: no step of a FindPath, FindPathFromWorld, IsValidCell or
\* FindNearestWalkableCell call changes CachedCells, MazeSize, CellSize or
\* bIsInitialized, and a query that is made again, after whatever other
\* queries, returns what it returned before: the same path, cell or answer.
C35_QueriesLeavePathfinderUnchanged ==
    [][/\ (Callers' # Callers) =>
             UNCHANGED <<CachedCells, MazeSize, CellSize, bIsInitialized>>
       /\ \A c \in CallerIds, d \in CallerIds :
             SameQuery(c, d)' =>
                /\ Callers'[c].Result = Callers'[d].Result
                /\ Callers'[c].Found = Callers'[d].Found
                /\ Callers'[c].Valid = Callers'[d].Valid
      ]_vars

\* Two callers asked for the path between opposite corners of a 2x2 grid of
\* floor cells, which has two shortest paths; both got the one through the
\* East neighbour.
C35_Witness ==
    \E c \in CallerIds, d \in CallerIds :
        /\ c # d
        /\ SameQuery(c, d)
        /\ Callers[c].Op = "FindPath"
        /\ Callers[c].Result.bSuccess
        /\ Callers[c].Result.PathGridCoordinates = << <<0, 0>>, <<1, 0>>, <<1, 1>> >>
        /\ Callers[d].Result.PathGridCoordinates = << <<0, 0>>, <<1, 0>>, <<1, 1>> >>

----------------------------------------------------------------------------
(* The Hollow Mask and the order of the broadcasts *)

\* C36: bHollowMaskUnlocked and bHollowMaskPermanentlyLocked are never both
\* true, so IsHollowMaskAvailable() is bHollowMaskUnlocked.
C36_UnlockedExcludesLocked ==
    /\ ~(GameState.bHollowMaskUnlocked /\ GameState.bHollowMaskPermanentlyLocked)
    /\ IsHollowMaskAvailable(GameState) = GameState.bHollowMaskUnlocked

\* The key was collected first and the exit discovered after it: the Hollow
\* Mask is locked for good and the discovery of the exit did not unlock it.
C36_Witness ==
    /\ Discovered = <<"Key", "Exit">>
    /\ LastCall = "NotifyExitDiscovered"
    /\ GameState.bHollowMaskPermanentlyLocked
    /\ ~GameState.bHollowMaskUnlocked
    /\ ~IsHollowMaskAvailable(GameState)

\* The delegates of the last call, by name, in the order of their broadcasts
BroadcastNames == [k \in 1..Len(Broadcasts) |-> Broadcasts[k][1]]

\* The flags that say which abilities the player has
AbilityFlags(gs) ==
    <<gs.bHollowMaskUnlocked, gs.bHollowMaskPermanentlyLocked, IsHollowMaskAvailable(gs),
      CanExitMaze(gs)>>

\* C37: a notify call that takes effect broadcasts OnExitDiscovered or
\* OnKeyCollected first, then OnHollowMaskUnlocked if at all, then
\* OnTargetChanged if at all; and at the broadcast of OnTargetChanged the
\* ability flags are the ones the call leaves behind.
C37_BroadcastOrder ==
    (LastCall \in NotifyCalls /\ Broadcasts # << >>) =>
        \E First \in {IF LastCall = "NotifyExitDiscovered" THEN "OnExitDiscovered"
                      ELSE "OnKeyCollected"} :
           /\ BroadcastNames \in {<<First>>,
                                  <<First, "OnHollowMaskUnlocked">>,
                                  <<First, "OnTargetChanged">>,
                                  <<First, "OnHollowMaskUnlocked", "OnTargetChanged">>}
           /\ \A k \in 1..Len(Broadcasts) :
                 BroadcastNames[k] = "OnTargetChanged" =>
                    /\ AbilityFlags(Seen[k]) = AbilityFlags(GameState)
                    /\ Seen[k].CurrentTarget = Broadcasts[k][2]

\* NotifyExitDiscovered broadcast all three delegates; the Hollow Mask was
\* still locked at the first broadcast and unlocked at the last.
C37_Witness ==
    /\ LastCall = "NotifyExitDiscovered"
    /\ BroadcastNames = <<"OnExitDiscovered", "OnHollowMaskUnlocked", "OnTargetChanged">>
    /\ ~Seen[1].bHollowMaskUnlocked
    /\ Seen[3].bHollowMaskUnlocked
    /\ GameState.bHollowMaskUnlocked

====
